---- MODULE Spec2Model ----
(***************************************************************************)
(* The longitudinal simulator Car1D (simulate/src/car1d.rs) and its table  *)
(* lookup, the arc segment SimpleArc with its runner, and the behaviours   *)
(* that yield control commands, as state machines.                         *)
(*                                                                         *)
(* Numbers.  f32 values are modelled as integers.  Speeds are in uu/s as   *)
(* in the source.  One model time unit is 3/100 s (SecondsPerUnit), the    *)
(* unit in which BOOST_DEPLETION (100/3 per second) times dt is a whole    *)
(* number of boost points; distances are therefore in units of 3/100 uu.   *)
(***************************************************************************)
EXTENDS Integers, Sequences, FiniteSets, TLC

VARIABLES car, prev, op, before, ctor, panicked, lk, arc, run, dur, cmd,
          query, jr, drv, bhv

vars ==
    <<car, prev, op, before, ctor, panicked, lk, arc, run, dur, cmd,
      query, jr, drv, bhv>>

\* The simulator's variables and those of the arc segment.
carVars == <<car, prev, op, before, ctor, panicked, lk>>

arcVars == <<arc, run, dur>>

\* A queried function, the jump-and-dodge runner, the driver and a
\* behaviour that keeps state between ticks.
restVars == <<query, jr, drv, bhv>>

(***************************************************************************)
(* Bounds of the model.                                                    *)
(***************************************************************************)
\* A car is stepped while its elapsed time stays within MaxTime units.
MaxTime == 4
\* Step sizes are 1..MaxDt time units.
MaxDt == 2
\* Lookup tables of the pure-function specification have 1..MaxLen entries
\* with keys in 0..MaxVal.
MaxLen == 3
MaxVal == 3

\* The angle units a car is advanced along an arc, more than a full turn.
MaxSwept == 25

(***************************************************************************)
(* rl.rs                                                                   *)
(***************************************************************************)
CAR_NORMAL_SPEED == 1410

\* 100.0 / 3.0 per second, as the rational <<numerator, denominator>>.
BOOST_DEPLETION == <<100, 3>>

\* The length of one model time unit in seconds, as a rational.
SecondsPerUnit == <<3, 100>>

\* rl::BOOST_DEPLETION * dt, for dt in model time units.
Depletion(dt) ==
    (BOOST_DEPLETION[1] * SecondsPerUnit[1] * dt)
        \div (BOOST_DEPLETION[2] * SecondsPerUnit[2])

\* `boost: 100.0` of Car1D::new.
FULL_BOOST == 100

(***************************************************************************)
(* tables.rs, generated by build.rs from recorded samples: one (time,      *)
(* speed) curve per regime, each also in reverse order.  The samples are   *)
(* SampleSpacing time units apart.                                         *)
(***************************************************************************)
Reverse(s) == [i \in 1..Len(s) |-> s[Len(s) + 1 - i]]

THROTTLE_TIME == <<0, 2, 4, 6>>
THROTTLE_CAR_VEL_Y == <<0, 600, 1100, 1410>>

BOOST_TIME == <<0, 2, 4, 6>>
BOOST_CAR_VEL_Y == <<0, 900, 1500, 2300>>

COAST_TIME == <<0, 2, 4, 6, 8>>
COAST_CAR_VEL_Y == <<2300, 1400, 600, 0, 0>>

COAST_TIME_REV == Reverse(COAST_TIME)
COAST_CAR_VEL_Y_REV == Reverse(COAST_CAR_VEL_Y)

SampleSpacing == THROTTLE_TIME[2] - THROTTLE_TIME[1]

(***************************************************************************)
(* linear_interpolate                                                      *)
(***************************************************************************)
\* slice::binary_search_by with the comparator n.partial_cmp(&x): Ok(i) for
\* an i with xs[i] = x (any one of them when there are several), otherwise
\* Err(i) with i the insertion point.  Indices are 0-based as in the source.
binary_search(xs, x) ==
    LET matches == {i \in 0..(Len(xs) - 1) : xs[i + 1] = x}
        less == {i \in 0..(Len(xs) - 1) : xs[i + 1] < x}
    IN  IF matches # {}
        THEN {[ok |-> TRUE, at |-> i] : i \in matches}
        ELSE {[ok |-> FALSE, at |-> Cardinality(less)]}

\* A mutant: a miss selects the upper endpoint (clamped to the table).
index_of_upper(r, len) ==
    IF r.ok THEN r.at
    ELSE IF r.at >= len THEN len - 1 ELSE r.at

\* The match of linear_interpolate: Ok(x) => x, Err(0) => 0, Err(x) => x - 1.
index_of(r, len) ==
    IF r.ok THEN r.at
    ELSE IF r.at = 0 THEN 0 ELSE r.at - 1

\* The indices linear_interpolate(xs, _, x) may select.
linear_interpolate_index(xs, x) ==
    {index_of(r, Len(xs)) : r \in binary_search(xs, x)}

\* The values linear_interpolate(xs, ys, x) may return: ys[index].
linear_interpolate(xs, ys, x) ==
    {ys[i + 1] : i \in linear_interpolate_index(xs, x)}

(***************************************************************************)
(* Car1D                                                                   *)
(***************************************************************************)
new(speed) == [time |-> 0, loc |-> 0, vel |-> speed, boost |-> FULL_BOOST]

with_boost(c, boost) == [c EXCEPT !.boost = boost]

\* A mutant: the boost request is not checked against the reserve.
gate_boost_ungated(c, boost) == boost

\* `if boost { boost = self.boost > 0.0; }` of step and step_rev.
gate_boost(c, boost) == IF boost THEN c.boost > 0 ELSE boost

\* The guard of the early return of compute_new_vel.
saturated(c, throttle) == c.vel >= CAR_NORMAL_SPEED /\ throttle = 1

\* A mutant: active boost without throttle coasts.
select_tables_lenient(throttle, boost) ==
    IF throttle = 0
    THEN <<COAST_CAR_VEL_Y_REV, COAST_TIME_REV, COAST_TIME, COAST_CAR_VEL_Y>>
    ELSE IF ~boost /\ throttle = 1
    THEN <<THROTTLE_CAR_VEL_Y, THROTTLE_TIME, THROTTLE_TIME, THROTTLE_CAR_VEL_Y>>
    ELSE IF boost /\ throttle = 1
    THEN <<BOOST_CAR_VEL_Y, BOOST_TIME, BOOST_TIME, BOOST_CAR_VEL_Y>>
    ELSE <<>>

\* The match of compute_new_vel:
\* <<src_vel_table, src_time_table, time_table, vel_table>>, or <<>> for
\* panic!("Unsupported inputs").
select_tables(throttle, boost) ==
    IF ~boost /\ throttle = 0
    THEN <<COAST_CAR_VEL_Y_REV, COAST_TIME_REV, COAST_TIME, COAST_CAR_VEL_Y>>
    ELSE IF ~boost /\ throttle = 1
    THEN <<THROTTLE_CAR_VEL_Y, THROTTLE_TIME, THROTTLE_TIME, THROTTLE_CAR_VEL_Y>>
    ELSE IF boost /\ throttle = 1
    THEN <<BOOST_CAR_VEL_Y, BOOST_TIME, BOOST_TIME, BOOST_CAR_VEL_Y>>
    ELSE <<>>

\* A mutant: no saturation shortcut.
compute_new_vel_unsaturated(c, dt, throttle, boost) ==
    LET t == select_tables(throttle, boost)
    IN  IF t = <<>> THEN {}
        ELSE UNION {linear_interpolate(t[3], t[4], old_time + dt) :
                        old_time \in linear_interpolate(t[1], t[2], c.vel)}

\* The speeds compute_new_vel may return; the empty set when it panics.
compute_new_vel(c, dt, throttle, boost) ==
    IF saturated(c, throttle) THEN {c.vel}
    ELSE LET t == select_tables(throttle, boost)
         IN  IF t = <<>> THEN {}
             ELSE UNION {linear_interpolate(t[3], t[4], old_time + dt) :
                             old_time \in linear_interpolate(t[1], t[2], c.vel)}

\* A mutant: the distance is advanced after the speed is replaced.
step_post_speed(c, dt, throttle, wants_boost) ==
    LET boost == gate_boost(c, wants_boost)
    IN  {[time |-> c.time + dt,
          loc |-> c.loc + new_vel * dt,
          vel |-> new_vel,
          boost |-> IF boost THEN c.boost - Depletion(dt) ELSE c.boost] :
            new_vel \in compute_new_vel(c, dt, throttle, boost)}

\* The cars Car1D::step may leave; the empty set when it panics.
step(c, dt, throttle, wants_boost) ==
    LET boost == gate_boost(c, wants_boost)
    IN  {[time |-> c.time + dt,
          loc |-> c.loc + c.vel * dt,
          vel |-> new_vel,
          boost |-> IF boost THEN c.boost - Depletion(dt) ELSE c.boost] :
            new_vel \in compute_new_vel(c, dt, throttle, boost)}

\* A mutant: the distance is advanced before the speed is replaced, as in step.
step_rev_pre_speed(c, dt, throttle, wants_boost) ==
    LET boost == gate_boost(c, wants_boost)
    IN  {[time |-> c.time + dt,
          loc |-> c.loc + c.vel * dt,
          vel |-> new_vel,
          boost |-> IF boost THEN c.boost - Depletion(dt) ELSE c.boost] :
            new_vel \in compute_new_vel(c, 0 - dt, throttle, boost)}

\* A mutant: running backwards gives the boost back.
step_rev_regenerating(c, dt, throttle, wants_boost) ==
    LET boost == gate_boost(c, wants_boost)
    IN  {[time |-> c.time + dt,
          loc |-> c.loc + new_vel * dt,
          vel |-> new_vel,
          boost |-> IF boost THEN c.boost + Depletion(dt) ELSE c.boost] :
            new_vel \in compute_new_vel(c, 0 - dt, throttle, boost)}

\* A mutant: dt is not negated for the speed lookup.
step_rev_forward(c, dt, throttle, wants_boost) ==
    LET boost == gate_boost(c, wants_boost)
    IN  {[time |-> c.time + dt,
          loc |-> c.loc + new_vel * dt,
          vel |-> new_vel,
          boost |-> IF boost THEN c.boost - Depletion(dt) ELSE c.boost] :
            new_vel \in compute_new_vel(c, dt, throttle, boost)}

\* A mutant: running backwards takes the elapsed time back.
step_rev_rewinding(c, dt, throttle, wants_boost) ==
    LET boost == gate_boost(c, wants_boost)
    IN  {[time |-> c.time - dt,
          loc |-> c.loc + new_vel * dt,
          vel |-> new_vel,
          boost |-> IF boost THEN c.boost - Depletion(dt) ELSE c.boost] :
            new_vel \in compute_new_vel(c, 0 - dt, throttle, boost)}

\* The cars Car1D::step_rev may leave; the empty set when it panics.
step_rev(c, dt, throttle, wants_boost) ==
    LET boost == gate_boost(c, wants_boost)
    IN  {[time |-> c.time + dt,
          loc |-> c.loc + new_vel * dt,
          vel |-> new_vel,
          boost |-> IF boost THEN c.boost - Depletion(dt) ELSE c.boost] :
            new_vel \in compute_new_vel(c, 0 - dt, throttle, boost)}

(***************************************************************************)
(* SimpleArc (brain/src/routing/segments/simple_arc.rs).                   *)
(*                                                                         *)
(* Plane geometry is relative to the arc's center: a point is the vector   *)
(* from the center to it, [ang, len], and a velocity is [ang, len] with    *)
(* len its speed in uu/s.  Angles are in units of 15 degrees, FullTurn of  *)
(* them to the turn; lengths are in units of 1/UnitsPerUU uu, so that a    *)
(* difference below the 1.0 uu tolerance exists.  Command fields are in    *)
(* thousandths.                                                            *)
(***************************************************************************)
FullTurn == 24

HalfTurn == FullTurn \div 2

QuarterTurn == FullTurn \div 4

UnitsPerUU == 2

\* The lowest start speed SimpleArc::new accepts, in uu/s.
MIN_SPEED == 100

\* The difference of the two radii that SimpleArc::new rejects: 1.0 uu.
TOLERANCE == UnitsPerUU

\* The runner's lookahead, 15 degrees.
LOOKAHEAD == 1

\* Thousandths of a radian in one angle unit (pi / 12).
MilliRadPerUnit == 262

\* 1.0 in thousandths.
ONE == 1000

Abs(x) == IF x < 0 THEN 0 - x ELSE x

\* An angle brought into (-HalfTurn, HalfTurn].
Normalize(d) ==
    LET m == d % FullTurn
    IN  IF m > HalfTurn THEN m - FullTurn ELSE m

\* The signed angles a.angle_to(b) may return: the rotation taking a to b;
\* for opposite vectors either half turn, and no rotation for a zero vector.
angle_to(a, b) ==
    IF a.len = 0 \/ b.len = 0
    THEN {0}
    ELSE LET d == Normalize(b.ang - a.ang)
         IN  IF d = HalfTurn THEN {HalfTurn, 0 - HalfTurn} ELSE {d}

\* p - q for two points on one line through the center.
Minus(p, q) ==
    LET s == IF Normalize(p.ang - q.ang) = 0 \/ p.len = 0
             THEN p.len - q.len
             ELSE 0 - p.len - q.len
    IN  IF s >= 0
        THEN [ang |-> q.ang, len |-> s]
        ELSE [ang |-> (q.ang + HalfTurn) % FullTurn, len |-> 0 - s]

\* f32::signum: 1.0 for +0.0 and above.
signum(x) == IF x < 0 THEN -1 ELSE 1

NoVector == [ang |-> 0, len |-> 0]

NoPlan ==
    [radius |-> 0, start_loc |-> NoVector, start_vel |-> NoVector,
     start_boost |-> 0, sweep |-> 0]

\* A mutant: the geometry is checked before the velocity.
SimpleArc_new_geometry_first(radius, start_loc, start_vel, start_boost, end_loc) ==
    IF Abs(start_loc.len - end_loc.len) >= TOLERANCE
    THEN {[result |-> "WrongGeometry", plan |-> NoPlan]}
    ELSE IF start_vel.len < MIN_SPEED
    THEN {[result |-> "VelocityTooLow", plan |-> NoPlan]}
    ELSE {[result |-> "Ok",
           plan |-> [radius |-> radius, start_loc |-> start_loc,
                     start_vel |-> start_vel, start_boost |-> start_boost,
                     sweep |-> 0]]}

\* A mutant: radii exactly 1.0 apart are accepted.
SimpleArc_new_lenient(radius, start_loc, start_vel, start_boost, end_loc) ==
    IF start_vel.len < MIN_SPEED
    THEN {[result |-> "VelocityTooLow", plan |-> NoPlan]}
    ELSE IF Abs(start_loc.len - end_loc.len) > TOLERANCE
    THEN {[result |-> "WrongGeometry", plan |-> NoPlan]}
    ELSE {[result |-> "Ok",
           plan |-> [radius |-> radius, start_loc |-> start_loc,
                     start_vel |-> start_vel, start_boost |-> start_boost,
                     sweep |-> 0]]}

\* The results SimpleArc::new may return (the center is the origin).
SimpleArc_new(radius, start_loc, start_vel, start_boost, end_loc) ==
    IF start_vel.len < MIN_SPEED
    THEN {[result |-> "VelocityTooLow", plan |-> NoPlan]}
    ELSE IF Abs(start_loc.len - end_loc.len) >= TOLERANCE
    THEN {[result |-> "WrongGeometry", plan |-> NoPlan]}
    ELSE {[result |-> "Ok",
           plan |-> [radius |-> radius, start_loc |-> start_loc,
                     start_vel |-> start_vel, start_boost |-> start_boost,
                     sweep |-> IF clockwise /\ sweep < 0
                               THEN sweep + FullTurn
                               ELSE IF ~clockwise /\ sweep >= 0
                               THEN sweep - FullTurn
                               ELSE sweep]] :
            clockwise \in {a < 0 : a \in angle_to(start_vel, start_loc)},
            sweep \in angle_to(start_loc, end_loc)}

sweep_by_angle(plan, angle) == angle * signum(plan.sweep)

sweep_between(plan, start_loc, end_loc) ==
    {IF result < 0 /\ plan.sweep >= 0
     THEN result + FullTurn
     ELSE IF result > 0 /\ plan.sweep < 0
     THEN result - FullTurn
     ELSE result : result \in angle_to(start_loc, end_loc)}

\* The forward axis of the car's own frame.
CAR_LOCAL_FORWARD_AXIS_2D == [ang |-> 0, len |-> 1]

\* UnitComplex::new(angle) * v
Rotate(angle, v) == [ang |-> (v.ang + angle) % FullTurn, len |-> v.len]

\* a.rotation_to(b), as its angle in 0 .. FullTurn - 1.
rotation_to(a, b) == (b.ang - a.ang) % FullTurn

SimpleArc_start_rot(plan) == rotation_to(CAR_LOCAL_FORWARD_AXIS_2D, plan.start_vel)

\* A mutant: the start location is turned against the sweep.
SimpleArc_end_loc_reversed(plan) == Rotate(0 - plan.sweep, plan.start_loc)

SimpleArc_end_loc(plan) == Rotate(plan.sweep, plan.start_loc)

SimpleArc_end_vel(plan) == Rotate(plan.sweep, plan.start_vel)

SimpleArc_end_rot(plan) ==
    rotation_to(CAR_LOCAL_FORWARD_AXIS_2D, SimpleArc_end_vel(plan))

\* SimpleArc::start and SimpleArc::end, as the CarState2D they convert.
SimpleArc_start(plan) ==
    [loc |-> plan.start_loc, rot |-> SimpleArc_start_rot(plan),
     vel |-> plan.start_vel, boost |-> plan.start_boost]

SimpleArc_end(plan) ==
    [loc |-> SimpleArc_end_loc(plan), rot |-> SimpleArc_end_rot(plan),
     vel |-> SimpleArc_end_vel(plan), boost |-> plan.start_boost]

\* A mutant: the duration keeps the sign of the sweep.
duration_signed(plan) == <<plan.radius * plan.sweep, plan.start_vel.len>>

\* SimpleArc::duration as the fraction <<numerator, denominator>>, in units
\* of (pi / 12) / UnitsPerUU seconds.
duration(plan) == <<plan.radius * Abs(plan.sweep), plan.start_vel.len>>

\* The product of a scalar and a vector.
Scale(k, v) ==
    IF k >= 0
    THEN [ang |-> v.ang, len |-> k * v.len]
    ELSE [ang |-> (v.ang + HalfTurn) % FullTurn, len |-> (0 - k) * v.len]

\* Vector2::normalize followed by the product with a non-negative length.
NormalizeTimes(v, length) == [ang |-> v.ang, len |-> length]

calculate_ahead_loc(plan, loc, angle) ==
    LET center_to_loc == loc
        center_to_ahead == Scale(sweep_by_angle(plan, angle), center_to_loc)
    IN  NormalizeTimes(center_to_ahead, plan.radius)

\* A mutant: the roll is not looked at.
on_flat_ground_any_roll(me) ==
    /\ me.OnGround
    /\ Abs(me.pitch) < 1

\* GetToFlatGround::on_flat_ground; pitch and roll in angle units.
on_flat_ground(me) ==
    /\ me.OnGround
    /\ Abs(me.pitch) < 1
    /\ Abs(me.roll) < 1

\* PlayerInput::default().
DefaultInput ==
    [Throttle |-> 0, Steer |-> 0, Pitch |-> 0, Yaw |-> 0, Roll |-> 0,
     Jump |-> FALSE, Boost |-> FALSE, Handbrake |-> FALSE]

\* An angle in thousandths of a radian.
Radians(angle) == angle * MilliRadPerUnit

\* A mutant: no clamp.
clamp_none(x) == x

\* x.max(-1.0).min(1.0)
clamp(x) == IF x < 0 - ONE THEN 0 - ONE ELSE IF x > ONE THEN ONE ELSE x

\* A mutant: the sweep is tested before the ground.
SimpleArcRunner_execute_old_sweep_first(plan, me) ==
    UNION {IF Abs(swept) >= Abs(plan.sweep)
           THEN {[kind |-> "Success", input |-> DefaultInput, target_loc |-> NoVector]}
           ELSE {[kind |-> "Failure", input |-> DefaultInput, target_loc |-> NoVector]} :
             swept \in sweep_between(plan, plan.start_loc, me.loc)}

\* The outcomes of one SimpleArcRunner::execute_old; target_loc is the
\* point it draws.
SimpleArcRunner_execute_old(plan, me) ==
    IF ~on_flat_ground(me)
    THEN {[kind |-> "Failure", input |-> DefaultInput, target_loc |-> NoVector]}
    ELSE UNION {
        IF Abs(swept) >= Abs(plan.sweep)
        THEN {[kind |-> "Success", input |-> DefaultInput, target_loc |-> NoVector]}
        ELSE LET target_loc == calculate_ahead_loc(plan, me.loc, LOOKAHEAD)
             IN  {[kind |-> "Yield",
                   input |-> [DefaultInput EXCEPT !.Throttle = ONE,
                                                  !.Steer = clamp(Radians(angle))],
                   target_loc |-> target_loc] :
                     angle \in angle_to(me.forward_axis, Minus(target_loc, me.loc))} :
          swept \in sweep_between(plan, plan.start_loc, me.loc)}

(***************************************************************************)
(* The behaviours and runners that yield control commands.  An Action is   *)
(* [kind, callee, input]: Yield carries an input, TailCall a callee.       *)
(***************************************************************************)
\* PI * 0.25 and PI * 0.50, in thousandths of a radian.
QUARTER_PI == 785

HALF_PI == 1571

Yield(input) == [kind |-> "Yield", callee |-> "", input |-> input]

TailCall(callee, input) == [kind |-> "TailCall", callee |-> callee, input |-> input]

Return == [kind |-> "Return", callee |-> "", input |-> DefaultInput]

Abort == [kind |-> "Abort", callee |-> "", input |-> DefaultInput]

\* drive_towards, given simple_yaw_diff's result in angle units and the
\* car's speed: the inputs it may return.
drive_towards(yaw_diff, speed) ==
    LET steer == clamp(Radians(yaw_diff)) * 2
    IN  {[DefaultInput EXCEPT !.Throttle = ONE,
                              !.Steer = steer,
                              !.Handbrake = Abs(Radians(yaw_diff)) >= handbrake_cutoff] :
            handbrake_cutoff \in
                linear_interpolate(<<0, CAR_NORMAL_SPEED>>, <<QUARTER_PI, HALF_PI>>, speed)}

DriveTowards_execute_old(me) ==
    {Yield(input) : input \in drive_towards(me.yaw_diff, me.speed)}

\* jump_down_from_the_wall: backing up, or the jump sequence.
jump_down_from_the_wall(me) ==
    IF me.backing_up
    THEN Yield([DefaultInput EXCEPT !.Throttle = 0 - ONE])
    ELSE TailCall("Chain", DefaultInput)

GetToFlatGround_execute_old(me) ==
    IF on_flat_ground(me) THEN {Return}
    ELSE IF ~me.OnGround THEN {TailCall("Land", DefaultInput)}
    ELSE IF me.upside_down
    THEN {TailCall("YieldAndMaybePanicBoost", [DefaultInput EXCEPT !.Jump = TRUE])}
    ELSE IF me.should_jump_down
    THEN IF ~me.inside_field
         THEN {Yield(escape) : escape \in drive_towards(me.yaw_diff, me.speed)}
         ELSE {jump_down_from_the_wall(me)}
    ELSE {Yield(IF ~me.inside_field
                THEN [input EXCEPT !.Steer = input.Steer * 2]
                ELSE input) : input \in drive_towards(me.yaw_diff, me.speed)}

\* A mutant: a car off flat ground makes SkidRecover return.
SkidRecover_execute_old_returning(me) ==
    IF ~on_flat_ground(me) \/ ~me.skidding THEN Return
    ELSE Yield([DefaultInput EXCEPT !.Throttle = ONE,
                                    !.Steer = clamp(Radians(me.yaw_diff))])

\* SkidRecover, given the angle from the car's rotation to future_rot.
SkidRecover_execute_old(me) ==
    IF ~on_flat_ground(me) THEN Abort
    ELSE IF ~me.skidding THEN Return
    ELSE Yield([DefaultInput EXCEPT !.Throttle = ONE,
                                    !.Steer = clamp(Radians(me.yaw_diff))])

NullBehavior_execute_old == Yield(DefaultInput)

\* Thousandths of the cosine of 0, 15, ..., 90 degrees.
COSINES == <<1000, 966, 866, 707, 500, 259, 0>>

cos_angle(a) ==
    LET m == Abs(Normalize(a))
    IN  IF m <= QuarterTurn
        THEN COSINES[m + 1]
        ELSE 0 - COSINES[HalfTurn - m + 1]

sin_angle(a) == cos_angle(a - QuarterTurn)

(***************************************************************************)
(* JumpAndDodge (brain/src/routing/segments/jump_and_dodge.rs).  Times are *)
(* in microseconds, velocities <<x, y>> in units of 100 uu/s and locations *)
(* <<x, y>> in their product, 1/10000 uu.  A rotation is its angle.        *)
(***************************************************************************)
\* 6.0 / 120.0 s
JUMP_TIME == 50000

WAIT_TIME == 50000

\* 1.333333 s
FLOAT_TIME == 1333333

\* 500 uu/s
DODGE_IMPULSE == 5

\* The literal 6.0 / 120.0 of the third and fourth phases.
DODGE_TIME == 50000

\* Yielder::new(duration, input)
Yielder(d, input) == [duration |-> d, input |-> input]

\* A mutant: the last phase lasts all of FLOAT_TIME.
JumpAndDodgeRunner_new_long_float(direction) ==
    <<Yielder(JUMP_TIME, [DefaultInput EXCEPT !.Jump = TRUE]),
      Yielder(WAIT_TIME, DefaultInput),
      Yielder(DODGE_TIME, [DefaultInput EXCEPT !.Pitch = 0 - cos_angle(direction),
                                               !.Yaw = sin_angle(direction),
                                               !.Jump = TRUE]),
      Yielder(FLOAT_TIME, DefaultInput)>>

\* A mutant: the dodge comes before the wait.
JumpAndDodgeRunner_new_dodge_first(direction) ==
    <<Yielder(JUMP_TIME, [DefaultInput EXCEPT !.Jump = TRUE]),
      Yielder(DODGE_TIME, [DefaultInput EXCEPT !.Pitch = 0 - cos_angle(direction),
                                               !.Yaw = sin_angle(direction),
                                               !.Jump = TRUE]),
      Yielder(WAIT_TIME, DefaultInput),
      Yielder(FLOAT_TIME - DODGE_TIME, DefaultInput)>>

\* The four phases JumpAndDodgeRunner::new chains.
JumpAndDodgeRunner_new(direction) ==
    <<Yielder(JUMP_TIME, [DefaultInput EXCEPT !.Jump = TRUE]),
      Yielder(WAIT_TIME, DefaultInput),
      Yielder(DODGE_TIME, [DefaultInput EXCEPT !.Pitch = 0 - cos_angle(direction),
                                               !.Yaw = sin_angle(direction),
                                               !.Jump = TRUE]),
      Yielder(FLOAT_TIME - DODGE_TIME, DefaultInput)>>

JumpAndDodge_duration(plan) == JUMP_TIME + WAIT_TIME + FLOAT_TIME

\* A Yielder that has not been called yet has no start time.
NoStart == -1

\* Yielder::execute_old at time now: the start time is latched on the first
\* call, and the input is yielded until the duration has elapsed.
Yielder_execute_old(y, start, now) ==
    LET latched == IF start = NoStart THEN now ELSE start
    IN  [start |-> latched,
         action |-> IF now - latched < y.duration THEN Yield(y.input) ELSE Return]

\* Chain::execute_old: the front child runs; when it returns the chain
\* advances to the next child within the same call, and a chain without
\* children returns.  Any other result of the child is the chain's.
RECURSIVE Chain_execute_old(_, _, _, _)
Chain_execute_old(children, index, start, now) ==
    IF index > Len(children)
    THEN [index |-> index, start |-> start, action |-> Return]
    ELSE LET r == Yielder_execute_old(children[index], start, now)
         IN  IF r.action.kind = "Return"
             THEN Chain_execute_old(children, index + 1, NoStart, now)
             ELSE [index |-> index, start |-> r.start, action |-> r.action]

(***************************************************************************)
(* YieldAndMaybePanicBoost (brain/src/behavior/movement/                   *)
(* get_to_flat_ground.rs).  Times are in units of 1/20 s.                  *)
(***************************************************************************)
YieldAndMaybePanicBoost_new(d, input) ==
    [duration |-> d, input |-> input, start |-> NoStart]

\* A mutant: the start time is taken anew on every call.
YieldAndMaybePanicBoost_execute_old_relatching(self, now, panic_retreat_boost) ==
    LET start == now
        elapsed == now - start
    IN  [self |-> [self EXCEPT !.start = start],
         action |-> IF elapsed < self.duration
                    THEN Yield([self.input EXCEPT !.Boost = panic_retreat_boost])
                    ELSE Return]

\* YieldAndMaybePanicBoost::execute_old at game time now, given the result
\* of Land::panic_retreat_boost: the behaviour afterwards and the Action.
YieldAndMaybePanicBoost_execute_old(self, now, panic_retreat_boost) ==
    LET start == IF self.start = NoStart THEN now ELSE self.start
        elapsed == now - start
    IN  [self |-> [self EXCEPT !.start = start],
         action |-> IF elapsed < self.duration
                    THEN Yield([self.input EXCEPT !.Boost = panic_retreat_boost])
                    ELSE Return]

RootCall == [kind |-> "RootCall", callee |-> "", input |-> DefaultInput]

\* SegmentRunAction
SegmentYield(input) == [kind |-> "Yield", input |-> input]

Success == [kind |-> "Success", input |-> DefaultInput]

Failure == [kind |-> "Failure", input |-> DefaultInput]

\* A mutant: an aborted inner behaviour counts as success.
JumpAndDodgeRunner_execute_old_forgiving(inner) ==
    CASE inner.kind = "Yield" -> {SegmentYield(inner.input)}
      [] inner.kind = "TailCall" -> {}
      [] inner.kind = "RootCall" -> {Failure}
      [] inner.kind = "Return" -> {Success}
      [] inner.kind = "Abort" -> {Success}

\* The match of JumpAndDodgeRunner::execute_old on the inner behaviour's
\* result: the set of results, empty where it panics.
JumpAndDodgeRunner_execute_old(inner) ==
    CASE inner.kind = "Yield" -> {SegmentYield(inner.input)}
      [] inner.kind = "TailCall" -> {}
      [] inner.kind = "RootCall" -> {Failure}
      [] inner.kind = "Return" -> {Success}
      [] inner.kind = "Abort" -> {Failure}

Plus(v, w) == <<v[1] + w[1], v[2] + w[2]>>

Times(k, v) == <<k * v[1], k * v[2]>>

\* The unit vector at an angle, in thousandths.
UnitXY(a) == <<cos_angle(a), sin_angle(a)>>

\* UnitComplex::new(angle) * v, for v in thousandths.
RotateXY(angle, v) ==
    <<(cos_angle(angle) * v[1] - sin_angle(angle) * v[2]) \div ONE,
      (sin_angle(angle) * v[1] + cos_angle(angle) * v[2]) \div ONE>>

\* CarState::forward_axis_2d, in thousandths.
forward_axis_2d(state) == UnitXY(state.rot)

\* A mutant: the impulse is not turned into the car's frame.
JumpAndDodge_end_unturned(plan) ==
    LET impulse == Times(DODGE_IMPULSE, UnitXY(plan.direction))
        dodge_vel == Plus(plan.start.vel,
                          <<impulse[1] \div ONE, impulse[2] \div ONE>>)
    IN  [loc |-> Plus(plan.start.loc,
                      Plus(Times(JUMP_TIME + WAIT_TIME, plan.start.vel),
                           Times(FLOAT_TIME, dodge_vel))),
         rot |-> plan.start.rot, vel |-> dodge_vel, boost |-> plan.start.boost]

\* JumpAndDodge::end, as the CarState2D it converts.
JumpAndDodge_end(plan) ==
    LET impulse == Times(DODGE_IMPULSE,
                         RotateXY(plan.direction, forward_axis_2d(plan.start)))
        dodge_vel == Plus(plan.start.vel,
                          <<impulse[1] \div ONE, impulse[2] \div ONE>>)
    IN  [loc |-> Plus(plan.start.loc,
                      Plus(Times(JUMP_TIME + WAIT_TIME, plan.start.vel),
                           Times(FLOAT_TIME, dodge_vel))),
         rot |-> plan.start.rot, vel |-> dodge_vel, boost |-> plan.start.boost]

(***************************************************************************)
(* The inputs.                                                             *)
(***************************************************************************)
\* Starting speeds: at rest, between two samples, the un-boosted top speed,
\* between the two top speeds, and above every sample.
Speeds == {0, 500, 1410, 1500, 9999}

\* Reserves given to with_boost.
Reserves == {0, 1}

DTs == 1..MaxDt

\* Throttle inputs: reverse, none, full.
Throttles == {-1, 0, 1}

NoLookup == [xs |-> <<>>, ys |-> <<>>, x |-> 0, index |-> 0, out |-> 0, done |-> FALSE]

NoCar == new(0)

\* The call record of a car that has only been constructed.
NoCall == [kind |-> "new", dt |-> 0, throttle |-> 0, boost |-> FALSE]

\* Distances from the center: 1000 uu, and the two next ones, less than
\* and exactly 1.0 uu farther.
Lengths == {1000 * UnitsPerUU, 1000 * UnitsPerUU + 1, 1000 * UnitsPerUU + UnitsPerUU}

\* Radii given to SimpleArc::new.
Radii == {1000 * UnitsPerUU, 1000 * UnitsPerUU + 1}

\* Start locations, and end locations by their angle past the start.
StartLocs == {[ang |-> a, len |-> l] : a \in {21}, l \in {1000 * UnitsPerUU, 1000 * UnitsPerUU + UnitsPerUU}}

EndAngles == {0, 1, 6, 12, 18, 23}

\* Start speeds: below, at and above the lowest accepted speed.
StartSpeeds == {MIN_SPEED - 1, MIN_SPEED, 500}

\* A start velocity is tangent to the circle, a quarter turn to either
\* side of the radius.
Tangents == {QuarterTurn, 0 - QuarterTurn}

\* The angular positions and headings of the car in a tick's snapshot.
CarAngles == {0, 5, 9, 20, 21, 22}

ForwardAxes == {[ang |-> 0, len |-> 1], [ang |-> 5, len |-> 1]}

\* A car on flat ground, and cars that are airborne, pitched or rolled.
Flat == [OnGround |-> TRUE, pitch |-> 0, roll |-> 0]

Attitudes ==
    {Flat, [Flat EXCEPT !.OnGround = FALSE], [Flat EXCEPT !.pitch = 1],
     [Flat EXCEPT !.roll = -1]}

Snapshot(loc, forward_axis, attitude) ==
    [loc |-> loc, forward_axis |-> forward_axis, OnGround |-> attitude.OnGround,
     pitch |-> attitude.pitch, roll |-> attitude.roll]

Snapshots ==
    {Snapshot([ang |-> a, len |-> l], f, Flat) :
        a \in CarAngles, l \in Lengths, f \in ForwardAxes}
    \cup {Snapshot([ang |-> a, len |-> 1000 * UnitsPerUU], [ang |-> 0, len |-> 1], at) :
        a \in CarAngles, at \in Attitudes \ {Flat}}

NoArc ==
    [radius |-> 0, start_loc |-> NoVector, start_vel |-> NoVector,
     start_boost |-> 0, end_loc |-> NoVector, result |-> "None", plan |-> NoPlan]

NoAction == [kind |-> "None", input |-> DefaultInput, target_loc |-> NoVector]

NoRun ==
    [me |-> Snapshot(NoVector, NoVector, Flat), advancing |-> TRUE,
     accumulated |-> 0, action |-> NoAction]

NoDuration == [asked |-> FALSE, value |-> <<0, 1>>]

\* What a behaviour reads of the tick's snapshot: simple_yaw_diff's result
\* (or the angle to the rotation aimed at), the speed, and the outcomes of
\* the tests on the car's situation.
Context(attitude, yaw_diff, speed, flags) ==
    [OnGround |-> attitude.OnGround, pitch |-> attitude.pitch, roll |-> attitude.roll,
     yaw_diff |-> yaw_diff, speed |-> speed,
     upside_down |-> flags[1], should_jump_down |-> flags[2],
     inside_field |-> flags[3], backing_up |-> flags[4], skidding |-> flags[5],
     direction |-> 0, phase |-> 0]

NoFlags == <<FALSE, FALSE, TRUE, FALSE, FALSE>>

NoContext == Context(Flat, 0, 0, NoFlags)

YawDiffs == (0 - HalfTurn)..HalfTurn

\* Speeds below and at the speed where the handbrake cutoff changes.
DriveSpeeds == {0, CAR_NORMAL_SPEED}

NoCommand == [emitter |-> "none", ctx |-> NoContext, action |-> Return]

\* No plan method called yet.
NoQuery == [fn |-> "none", args |-> <<>>, out |-> <<>>]

\* No runner constructed yet.  A runner is its plan's direction, the
\* chain's front child (index) and that child's start time, the time of
\* the next snapshot (now), and of its last call: the time (at), the
\* result (out), the phase whose input it yielded (issued, 0 for none) and
\* the one before (prev_issued); began is when each phase was first run and
\* after counts the calls since the first Success.
NoRunner ==
    [made |-> FALSE, direction |-> 0, index |-> 0, start |-> NoStart,
     now |-> 0, at |-> 0, out |-> [kind |-> "None", input |-> DefaultInput],
     issued |-> 0, prev_issued |-> 0,
     began |-> <<NoStart, NoStart, NoStart, NoStart>>, after |-> 0]

\* No behaviour constructed yet.
NoBehavior == [type |-> "none"]

\* The driver before its first tick: the number of ticks run, the snapshot
\* of the last tick, the active behaviour, and of the last tick the calls
\* made (behaviour, snapshot passed, result), the commands emitted and
\* whether the cap on the tail calls was hit.
NoDriver ==
    [tick |-> 0, snapshot |-> 0, current |-> "RootBehavior",
     calls |-> <<>>, commands |-> <<>>, capped |-> FALSE]

(***************************************************************************)
(* The simulator's state machine: a car is constructed, then stepped       *)
(* forwards and backwards with arbitrary inputs.  prev is the car before   *)
(* the latest call and op the call's arguments; before holds the car and   *)
(* the call record one call earlier; a panic ends the run.                 *)
(***************************************************************************)
Init ==
    /\ \E speed \in Speeds :
          \/ /\ car = new(speed)
             /\ ctor = [speed |-> speed, with_boost |-> FALSE, boost |-> FULL_BOOST]
          \/ \E b \in Reserves :
                /\ car = with_boost(new(speed), b)
                /\ ctor = [speed |-> speed, with_boost |-> TRUE, boost |-> b]
    /\ prev = car
    /\ op = NoCall
    /\ before = [car |-> car, op |-> NoCall]
    /\ panicked = FALSE
    /\ lk = NoLookup
    /\ arc = NoArc
    /\ run = NoRun
    /\ dur = NoDuration
    /\ cmd = NoCommand
    /\ query = NoQuery
    /\ jr = NoRunner
    /\ drv = NoDriver
    /\ bhv = NoBehavior

\* The effect of one call: results are the cars the call may leave.
Call(kind, results, dt, throttle, boost) ==
    /\ op' = [kind |-> kind, dt |-> dt, throttle |-> throttle, boost |-> boost]
    /\ prev' = car
    /\ before' = [car |-> prev, op |-> op]
    /\ IF results = {}
       THEN /\ panicked' = TRUE
            /\ car' = car
       ELSE /\ panicked' = FALSE
            /\ car' \in results
    /\ UNCHANGED <<ctor, lk, arcVars, cmd, restVars>>

Step ==
    \E dt \in DTs, throttle \in Throttles, boost \in BOOLEAN :
        /\ ~panicked
        /\ car.time + dt <= MaxTime
        /\ Call("step", step(car, dt, throttle, boost), dt, throttle, boost)

StepRev ==
    \E dt \in DTs, throttle \in Throttles, boost \in BOOLEAN :
        /\ ~panicked
        /\ car.time + dt <= MaxTime
        /\ Call("step_rev", step_rev(car, dt, throttle, boost), dt, throttle, boost)

Next == Step \/ StepRev

Spec == Init /\ [][Next]_vars

(***************************************************************************)
(* The table lookup on its own: a table sorted ascending in xs, paired     *)
(* with ys, and a query; Lookup applies linear_interpolate once.           *)
(***************************************************************************)
SortedTables(len) ==
    {xs \in [1..len -> 0..MaxVal] : \A i \in 1..(len - 1) : xs[i] <= xs[i + 1]}

PairedValues(len) ==
    {[i \in 1..len |-> 10 * i], [i \in 1..len |-> 10 * (len + 1 - i)]}

InitLookup ==
    /\ \E len \in 1..MaxLen :
         \E xs \in SortedTables(len), ys \in PairedValues(len), x \in -1..(MaxVal + 1) :
            lk = [xs |-> xs, ys |-> ys, x |-> x, index |-> 0, out |-> 0, done |-> FALSE]
    /\ car = NoCar
    /\ prev = NoCar
    /\ op = NoCall
    /\ before = [car |-> NoCar, op |-> NoCall]
    /\ ctor = [speed |-> 0, with_boost |-> FALSE, boost |-> FULL_BOOST]
    /\ panicked = FALSE
    /\ arc = NoArc
    /\ run = NoRun
    /\ dur = NoDuration
    /\ cmd = NoCommand
    /\ query = NoQuery
    /\ jr = NoRunner
    /\ drv = NoDriver
    /\ bhv = NoBehavior

Lookup ==
    /\ ~lk.done
    /\ \E i \in linear_interpolate_index(lk.xs, lk.x) :
          lk' = [lk EXCEPT !.index = i,
                           !.out = IF i < Len(lk.ys) THEN lk.ys[i + 1] ELSE -1,
                           !.done = TRUE]
    /\ UNCHANGED <<car, prev, op, before, ctor, panicked, arcVars, cmd, restVars>>

NextLookup == Lookup

SpecLookup == InitLookup /\ [][NextLookup]_vars

(***************************************************************************)
(* The arc segment: a plan is constructed once; its duration may be asked; *)
(* its runner is executed tick after tick on a snapshot of the car until   *)
(* it reports Success or Failure.  A tick either finds the car anywhere,   *)
(* or finds it where it was or one angle unit farther along the arc in the *)
(* direction of the start velocity; accumulated counts the units advanced  *)
(* while every tick so far was of the second kind.                         *)
(***************************************************************************)
InitArc ==
    /\ arc = NoArc
    /\ run = NoRun
    /\ dur = NoDuration
    /\ cmd = NoCommand
    /\ query = NoQuery
    /\ jr = NoRunner
    /\ drv = NoDriver
    /\ bhv = NoBehavior
    /\ car = NoCar
    /\ prev = NoCar
    /\ op = NoCall
    /\ before = [car |-> NoCar, op |-> NoCall]
    /\ ctor = [speed |-> 0, with_boost |-> FALSE, boost |-> FULL_BOOST]
    /\ panicked = FALSE
    /\ lk = NoLookup

New ==
    /\ arc.result = "None"
    /\ \E radius \in Radii, start_loc \in StartLocs, t \in Tangents,
          speed \in StartSpeeds, a \in EndAngles, l \in Lengths :
          LET start_vel == [ang |-> (start_loc.ang + t) % FullTurn, len |-> speed]
              end_loc == [ang |-> (start_loc.ang + a) % FullTurn, len |-> l]
          IN  \E r \in SimpleArc_new(radius, start_loc, start_vel, FULL_BOOST, end_loc) :
                 /\ arc' = [radius |-> radius, start_loc |-> start_loc,
                            start_vel |-> start_vel, start_boost |-> FULL_BOOST,
                            end_loc |-> end_loc, result |-> r.result, plan |-> r.plan]
                 /\ run' = [NoRun EXCEPT !.me.loc = start_loc]
    /\ UNCHANGED <<dur, cmd, carVars, restVars>>

Duration ==
    /\ arc.result = "Ok"
    /\ ~dur.asked
    /\ dur' = [asked |-> TRUE, value |-> duration(arc.plan)]
    /\ UNCHANGED <<arc, run, cmd, carVars, restVars>>

Running == arc.result = "Ok" /\ run.action.kind \notin {"Success", "Failure"}

\* The direction of travel the start velocity commits the car to.
Heading == IF Normalize(arc.start_vel.ang - arc.start_loc.ang) > 0 THEN 1 ELSE -1

ExecuteOld ==
    /\ Running
    /\ \E me \in Snapshots :
         \E action \in SimpleArcRunner_execute_old(arc.plan, me) :
            run' = [me |-> me, advancing |-> FALSE, accumulated |-> 0,
                    action |-> action]
    /\ UNCHANGED <<arc, dur, cmd, carVars, restVars>>

ExecuteOldAdvancing ==
    /\ Running
    /\ run.advancing
    /\ \E d \in {0, 1}, l \in Lengths, f \in ForwardAxes :
         LET accumulated == run.accumulated + d
             loc == [ang |-> (arc.start_loc.ang + Heading * accumulated) % FullTurn,
                     len |-> l]
             me == Snapshot(loc, f, Flat)
         IN  /\ accumulated <= MaxSwept
             /\ \E action \in SimpleArcRunner_execute_old(arc.plan, me) :
                    run' = [me |-> me, advancing |-> TRUE,
                            accumulated |-> accumulated, action |-> action]
    /\ UNCHANGED <<arc, dur, cmd, carVars, restVars>>

\* The first tick finds the car on flat ground behind the start location,
\* against the direction of travel: accumulated is negative.
ExecuteOldBehind ==
    /\ Running
    /\ run.action.kind = "None"
    /\ \E d \in {1, 2}, l \in Lengths, f \in ForwardAxes :
         LET loc == [ang |-> (arc.start_loc.ang - Heading * d) % FullTurn,
                     len |-> l]
             me == Snapshot(loc, f, Flat)
         IN  \E action \in SimpleArcRunner_execute_old(arc.plan, me) :
                run' = [me |-> me, advancing |-> FALSE,
                        accumulated |-> 0 - d, action |-> action]
    /\ UNCHANGED <<arc, dur, cmd, carVars, restVars>>

NextArc ==
    \/ New
    \/ Duration
    \/ ExecuteOld
    \/ ExecuteOldAdvancing
    \/ ExecuteOldBehind

SpecArc == InitArc /\ [][NextArc]_vars

(***************************************************************************)
(* The commands: on every tick one of the behaviours or runners is         *)
(* executed on a snapshot; cmd holds who it was, what it read and the      *)
(* Action it returned.                                                     *)
(***************************************************************************)
InitInput ==
    /\ cmd = NoCommand
    /\ query = NoQuery
    /\ jr = NoRunner
    /\ drv = NoDriver
    /\ bhv = NoBehavior
    /\ arc = NoArc
    /\ run = NoRun
    /\ dur = NoDuration
    /\ car = NoCar
    /\ prev = NoCar
    /\ op = NoCall
    /\ before = [car |-> NoCar, op |-> NoCall]
    /\ ctor = [speed |-> 0, with_boost |-> FALSE, boost |-> FULL_BOOST]
    /\ panicked = FALSE
    /\ lk = NoLookup

DriveTowardsTick ==
    /\ \E yaw_diff \in YawDiffs, speed \in DriveSpeeds :
          LET me == Context(Flat, yaw_diff, speed, NoFlags)
          IN  \E action \in DriveTowards_execute_old(me) :
                 cmd' = [emitter |-> "DriveTowards", ctx |-> me, action |-> action]
    /\ UNCHANGED <<carVars, arcVars, restVars>>

GetToFlatGroundTick ==
    /\ \E attitude \in Attitudes, yaw_diff \in YawDiffs, speed \in DriveSpeeds,
          upside_down, should_jump_down, inside_field, backing_up \in BOOLEAN :
          LET me == Context(attitude, yaw_diff, speed,
                            <<upside_down, should_jump_down, inside_field,
                              backing_up, FALSE>>)
          IN  \E action \in GetToFlatGround_execute_old(me) :
                 cmd' = [emitter |-> "GetToFlatGround", ctx |-> me, action |-> action]
    /\ UNCHANGED <<carVars, arcVars, restVars>>

SkidRecoverTick ==
    /\ \E attitude \in Attitudes, yaw_diff \in YawDiffs, skidding \in BOOLEAN :
          LET me == Context(attitude, yaw_diff, 0, [NoFlags EXCEPT ![5] = skidding])
          IN  cmd' = [emitter |-> "SkidRecover", ctx |-> me,
                      action |-> SkidRecover_execute_old(me)]
    /\ UNCHANGED <<carVars, arcVars, restVars>>

NullBehaviorTick ==
    /\ cmd' = [emitter |-> "NullBehavior", ctx |-> NoContext,
               action |-> NullBehavior_execute_old]
    /\ UNCHANGED <<carVars, arcVars, restVars>>

JumpAndDodgeRunnerTick ==
    /\ \E direction \in 0..(FullTurn - 1), phase \in 1..4 :
          cmd' = [emitter |-> "JumpAndDodgeRunner",
                  ctx |-> [NoContext EXCEPT !.direction = direction, !.phase = phase],
                  action |-> Yield(JumpAndDodgeRunner_new(direction)[phase].input)]
    /\ UNCHANGED <<carVars, arcVars, restVars>>

SimpleArcRunnerTick ==
    /\ \E start_loc \in StartLocs, t \in Tangents, me \in Snapshots :
          LET start_vel == [ang |-> (start_loc.ang + t) % FullTurn, len |-> 500]
              end_loc == [start_loc EXCEPT !.ang = (start_loc.ang + HalfTurn) % FullTurn]
          IN  \E r \in SimpleArc_new(start_loc.len, start_loc, start_vel, FULL_BOOST, end_loc) :
                \E action \in SimpleArcRunner_execute_old(r.plan, me) :
                   cmd' = [emitter |-> "SimpleArcRunner",
                           ctx |-> [NoContext EXCEPT
                                       !.OnGround = me.OnGround, !.pitch = me.pitch,
                                       !.roll = me.roll,
                                       !.yaw_diff = me.loc.ang - me.forward_axis.ang,
                                       !.direction = r.plan.sweep],
                           action |-> [kind |-> action.kind, callee |-> "",
                                       input |-> action.input]]
    /\ UNCHANGED <<carVars, arcVars, restVars>>

NextInput ==
    \/ DriveTowardsTick
    \/ GetToFlatGroundTick
    \/ SkidRecoverTick
    \/ NullBehaviorTick
    \/ JumpAndDodgeRunnerTick
    \/ SimpleArcRunnerTick

SpecInput == InitInput /\ [][NextInput]_vars

(***************************************************************************)
(* The plans' methods: on a plan just constructed one of start(), end()    *)
(* and duration() is called; query holds the method, the arguments of the  *)
(* construction and the result.                                            *)
(***************************************************************************)
StartBoosts == {0, FULL_BOOST}

\* The arguments of the constructions that return a plan, with the plan.
ArcConstructions ==
    UNION {
        LET start_vel == [ang |-> (start_loc.ang + t) % FullTurn, len |-> speed]
            end_loc == [ang |-> (start_loc.ang + a) % FullTurn, len |-> l]
        IN  {[radius |-> radius, start_loc |-> start_loc, start_vel |-> start_vel,
              start_boost |-> boost, end_loc |-> end_loc, plan |-> r.plan] :
                r \in {x \in SimpleArc_new(radius, start_loc, start_vel, boost, end_loc) :
                          x.result = "Ok"}} :
          radius \in Radii, start_loc \in StartLocs, t \in Tangents,
          speed \in StartSpeeds, a \in EndAngles, l \in Lengths,
          boost \in StartBoosts}

SimpleArcStart ==
    /\ \E c \in ArcConstructions :
          query' = [fn |-> "SimpleArc::start", args |-> c, out |-> SimpleArc_start(c.plan)]
    /\ UNCHANGED <<carVars, arcVars, cmd, jr, drv, bhv>>

SimpleArcEnd ==
    /\ \E c \in ArcConstructions :
          query' = [fn |-> "SimpleArc::end", args |-> c, out |-> SimpleArc_end(c.plan)]
    /\ UNCHANGED <<carVars, arcVars, cmd, jr, drv, bhv>>

\* SimpleArc::new with radii at, near and far from the distance between the
\* center and the start location.
SimpleArcNew ==
    /\ \E radius \in Radii \cup {500 * UnitsPerUU}, start_loc \in StartLocs,
          t \in Tangents, speed \in StartSpeeds, a \in EndAngles, l \in Lengths :
          LET start_vel == [ang |-> (start_loc.ang + t) % FullTurn, len |-> speed]
              end_loc == [ang |-> (start_loc.ang + a) % FullTurn, len |-> l]
          IN  \E r \in SimpleArc_new(radius, start_loc, start_vel, FULL_BOOST, end_loc) :
                 query' = [fn |-> "SimpleArc::new",
                           args |-> [radius |-> radius, start_loc |-> start_loc,
                                     start_vel |-> start_vel, end_loc |-> end_loc],
                           out |-> r]
    /\ UNCHANGED <<carVars, arcVars, cmd, jr, drv, bhv>>

\* Start states of a jump and dodge: locations of whole uu, velocities
\* and headings along the axes.
QuarterTurns == {0, QuarterTurn, HalfTurn, 3 * QuarterTurn}

DodgeStarts ==
    {[loc |-> loc, rot |-> rot, vel |-> vel, boost |-> boost] :
        loc \in {<<0, 0>>, <<10000000, -20000000>>}, rot \in QuarterTurns,
        vel \in {<<0, 0>>, <<13, 0>>, <<0, -23>>, <<-5, 5>>},
        boost \in StartBoosts}

JumpAndDodgeDuration ==
    /\ \E start \in DodgeStarts, direction \in 0..(FullTurn - 1) :
          LET plan == [start |-> start, direction |-> direction]
          IN  query' = [fn |-> "JumpAndDodge::duration", args |-> plan,
                        out |-> JumpAndDodge_duration(plan)]
    /\ UNCHANGED <<carVars, arcVars, cmd, jr, drv, bhv>>

JumpAndDodgeEnd ==
    /\ \E start \in DodgeStarts, direction \in QuarterTurns :
          LET plan == [start |-> start, direction |-> direction]
          IN  query' = [fn |-> "JumpAndDodge::end", args |-> plan,
                        out |-> JumpAndDodge_end(plan)]
    /\ UNCHANGED <<carVars, arcVars, cmd, jr, drv, bhv>>

(***************************************************************************)
(* Priority and Behavior::priority (brain/src/strategy/behavior.rs).       *)
(***************************************************************************)
\* The variants of Priority, in the order of their declaration.
Priority == <<"Idle", "Defense", "Strike", "Taunt", "Force">>

\* The discriminant of a variant: its position in the declaration.
discriminant(p) == CHOOSE i \in 1..Len(Priority) : Priority[i] = p

\* A mutant: the variants compare in reverse.
Priority_cmp_reversed(a, b) ==
    IF discriminant(a) > discriminant(b) THEN "Less"
    ELSE IF discriminant(a) = discriminant(b) THEN "Equal"
    ELSE "Greater"

\* Ord::cmp as derived for Priority: by discriminant.
Priority_cmp(a, b) ==
    IF discriminant(a) < discriminant(b) THEN "Less"
    ELSE IF discriminant(a) = discriminant(b) THEN "Equal"
    ELSE "Greater"

\* A mutant: the default priority is the highest.
Behavior_priority_forced == "Force"

\* The provided method Behavior::priority.
Behavior_priority == "Idle"

(***************************************************************************)
(* get_route_dodge (brain/src/plan/drive.rs).  A car is its Boost, its     *)
(* OnGround flag, its pitch and simple_yaw_diff to the target in           *)
(* thousandths of a radian, its speed in 1/100 uu/s and the distance to    *)
(* the target in 1/100 uu.  Times are in microseconds.                     *)
(***************************************************************************)
\* 1.33333333 s, to the microsecond.
GROUND_DODGE_TIME == 1333333

\* 500.0 uu/s
DODGE_SPEED_BOOST == 50000

\* std::f32::consts::PI, in thousandths of a radian (rounded up, so that
\* k * x >= PI decides x >= PI / k for whole x and k in {12, 60}).
PI == 3142

CAR_MAX_SPEED == 229998

CAR_ALMOST_MAX_SPEED == CAR_MAX_SPEED - 1000

\* 1300.0 uu/s
DODGE_MIN_SPEED == 130000

\* target_dist / dodge_vel in whole microseconds, by long division.
travel_time(target_dist, dodge_vel) ==
    LET millis == (target_dist * 1000) \div dodge_vel
        rest == (target_dist * 1000) % dodge_vel
    IN  millis * 1000 + (rest * 1000) \div dodge_vel

\* A mutant: the car's reserve is not looked at.
get_route_dodge_any_boost(c) ==
    IF ~c.OnGround THEN "None"
    ELSE IF c.pitch * 12 >= PI THEN "None"
    ELSE IF Abs(c.yaw_diff) * 60 >= PI THEN "None"
    ELSE IF c.speed < DODGE_MIN_SPEED THEN "None"
    ELSE IF c.speed >= CAR_ALMOST_MAX_SPEED THEN "None"
    ELSE IF travel_time(c.target_dist, c.speed + DODGE_SPEED_BOOST) < GROUND_DODGE_TIME
         THEN "None"
    ELSE "QuickJumpAndDodge"

get_route_dodge(c) ==
    IF c.Boost > 1 THEN "None"
    ELSE IF ~c.OnGround THEN "None"
    ELSE IF c.pitch * 12 >= PI THEN "None"
    ELSE IF Abs(c.yaw_diff) * 60 >= PI THEN "None"
    ELSE IF c.speed < DODGE_MIN_SPEED THEN "None"
    ELSE IF c.speed >= CAR_ALMOST_MAX_SPEED THEN "None"
    ELSE IF travel_time(c.target_dist, c.speed + DODGE_SPEED_BOOST) < GROUND_DODGE_TIME
         THEN "None"
    ELSE "QuickJumpAndDodge"

(***************************************************************************)
(* Defense (brain/src/behavior/defense/defense.rs).  A situation is what   *)
(* the behaviour reads: whether PanicDefense::finished_panicking holds,    *)
(* the distances of the ball and of the car from the own goal along the    *)
(* axis from the goal to the ball (ball_dist, me_dist), whether the        *)
(* retreat is slightly panicky, the angle at the goal between the ball and *)
(* the car in thousandths of a radian, the car's distance from the goal    *)
(* (me_goal_dist), and what RetreatingSave::applicable, enemy_can_shoot    *)
(* and enemy_can_attack say.                                               *)
(***************************************************************************)
\* 2000.0
PANIC_FACTOR == 2000

\* 1200.0
NET_DISTANCE == 1200

\* A mutant: the geometry is checked before the panic is.
is_between_ball_and_own_goal_geometry_first(c) ==
    LET panic_factor == IF c.slightly_panicky_retreat THEN PANIC_FACTOR ELSE 0
    IN  IF c.ball_dist <= c.me_dist + panic_factor THEN FALSE
        ELSE IF Abs(c.defending_angle) * 6 >= PI /\ c.me_goal_dist >= NET_DISTANCE
        THEN FALSE
        ELSE TRUE

is_between_ball_and_own_goal(c) ==
    LET panic_factor == IF c.slightly_panicky_retreat THEN PANIC_FACTOR ELSE 0
    IN  IF c.finished_panicking THEN TRUE
        ELSE IF c.ball_dist <= c.me_dist + panic_factor THEN FALSE
        ELSE IF Abs(c.defending_angle) * 6 >= PI /\ c.me_goal_dist >= NET_DISTANCE
        THEN FALSE
        ELSE TRUE

\* A mutant: an enemy that can attack does not make Defense retreat.
Defense_execute_old_bold(c) ==
    IF ~is_between_ball_and_own_goal(c)
    THEN [action |-> TailCall("Retreat", DefaultInput), log |-> "not between ball and goal"]
    ELSE IF c.retreating_save
    THEN [action |-> TailCall("Retreat", DefaultInput), log |-> "retreating save"]
    ELSE IF c.enemy_can_shoot
    THEN [action |-> TailCall("Retreat", DefaultInput), log |-> "enemy_can_shoot"]
    ELSE [action |-> TailCall("TepidHit", DefaultInput), log |-> ""]

\* Defense::execute_old: the Action and what it logs.
Defense_execute_old(c) ==
    IF ~is_between_ball_and_own_goal(c)
    THEN [action |-> TailCall("Retreat", DefaultInput), log |-> "not between ball and goal"]
    ELSE IF c.retreating_save
    THEN [action |-> TailCall("Retreat", DefaultInput), log |-> "retreating save"]
    ELSE IF c.enemy_can_shoot
    THEN [action |-> TailCall("Retreat", DefaultInput), log |-> "enemy_can_shoot"]
    ELSE IF c.enemy_can_attack
    THEN [action |-> TailCall("Retreat", DefaultInput), log |-> "enemy_can_attack"]
    ELSE [action |-> TailCall("TepidHit", DefaultInput), log |-> ""]

\* Situations around each threshold of is_between_ball_and_own_goal.
Positions ==
    [finished_panicking : BOOLEAN,
     ball_dist : {1000, 3000, 3001},
     me_dist : {500, 1000},
     slightly_panicky_retreat : BOOLEAN,
     defending_angle : {0, 523, 524},
     me_goal_dist : {1199, 1200}]

Situation(p, save, shoot, attack) ==
    [finished_panicking |-> p.finished_panicking, ball_dist |-> p.ball_dist,
     me_dist |-> p.me_dist, slightly_panicky_retreat |-> p.slightly_panicky_retreat,
     defending_angle |-> p.defending_angle, me_goal_dist |-> p.me_goal_dist,
     retreating_save |-> save, enemy_can_shoot |-> shoot,
     enemy_can_attack |-> attack]

\* Cars around each of the thresholds of get_route_dodge.
DodgeCars ==
    [Boost : {0, 1, 2},
     OnGround : BOOLEAN,
     pitch : {-100, 261, 262},
     yaw_diff : {-53, -52, 0, 52, 53},
     speed : {129999, 130000, 200000, 228997, 228998},
     target_dist : {0, 333325, 333333, 333334, 500000}]

InitStrategy == InitInput

PriorityCmp ==
    /\ \E i, j \in 1..Len(Priority) :
          query' = [fn |-> "Priority::cmp", args |-> <<Priority[i], Priority[j]>>,
                    out |-> Priority_cmp(Priority[i], Priority[j])]
    /\ UNCHANGED <<carVars, arcVars, cmd, jr, drv, bhv>>

BehaviorPriority ==
    /\ \E behavior \in {"NullBehavior", "DriveTowards", "GetToFlatGround",
                         "SkidRecover", "Defense"} :
          query' = [fn |-> "Behavior::priority", args |-> behavior,
                    out |-> Behavior_priority]
    /\ UNCHANGED <<carVars, arcVars, cmd, jr, drv, bhv>>

GetRouteDodge ==
    /\ \E c \in DodgeCars :
          query' = [fn |-> "get_route_dodge", args |-> c,
                    out |-> get_route_dodge(c)]
    /\ UNCHANGED <<carVars, arcVars, cmd, jr, drv, bhv>>

IsBetweenBallAndOwnGoal ==
    /\ \E p \in Positions :
          query' = [fn |-> "Defense::is_between_ball_and_own_goal", args |-> p,
                    out |-> is_between_ball_and_own_goal(p)]
    /\ UNCHANGED <<carVars, arcVars, cmd, jr, drv, bhv>>

DefenseExecuteOld ==
    /\ \E p \in Positions, save, shoot, attack \in BOOLEAN :
          LET c == Situation(p, save, shoot, attack)
          IN  query' = [fn |-> "Defense::execute_old", args |-> c,
                        out |-> Defense_execute_old(c)]
    /\ UNCHANGED <<carVars, arcVars, cmd, jr, drv, bhv>>

NextStrategy ==
    \/ IsBetweenBallAndOwnGoal
    \/ DefenseExecuteOld
    \/ PriorityCmp
    \/ BehaviorPriority
    \/ GetRouteDodge

SpecStrategy == InitStrategy /\ [][NextStrategy]_vars

(***************************************************************************)
(* The driver of the behaviours.  Each tick it captures a snapshot and     *)
(* invokes the active behaviour; a TailCall swaps in the callee, which is  *)
(* invoked at once with the same snapshot, a Return or an Abort swaps in   *)
(* the root behaviour again, and a Yield is the tick's command.  No more   *)
(* than TailCallCap behaviours are swapped in within a tick: then the      *)
(* tick's command is the default one.                                      *)
(***************************************************************************)
TailCallCap == 5

Behaviors == {"RootBehavior", "Defense", "Offense", "Retreat", "TepidHit"}

\* The results of a behaviour's execute_old: the root picks a plan, Defense
\* always tail-calls, and the behaviours whose code is elsewhere may do
\* anything, a tail call back to Defense included.
Behavior_execute_old(behavior) ==
    CASE behavior = "RootBehavior" ->
            {TailCall("Defense", DefaultInput), TailCall("Offense", DefaultInput)}
      [] behavior = "Defense" ->
            {TailCall("Retreat", DefaultInput), TailCall("TepidHit", DefaultInput)}
      [] OTHER ->
            {Yield([DefaultInput EXCEPT !.Throttle = ONE]), Return, Abort,
             TailCall("Defense", DefaultInput)}

\* A mutant: a tail call is followed with a fresh snapshot.
RECURSIVE Driver_exec_fresh_snapshot(_, _, _, _)
Driver_exec_fresh_snapshot(current, depth, snapshot, calls) ==
    IF depth > TailCallCap
    THEN {[current |-> current, calls |-> calls,
           commands |-> <<DefaultInput>>, capped |-> TRUE]}
    ELSE UNION {
        LET called == Append(calls, [behavior |-> current, snapshot |-> snapshot,
                                     result |-> action])
        IN  CASE action.kind = "Yield" ->
                    {[current |-> current, calls |-> called,
                      commands |-> <<action.input>>, capped |-> FALSE]}
              [] action.kind = "TailCall" ->
                    Driver_exec_fresh_snapshot(action.callee, depth + 1,
                                               snapshot + 1, called)
              [] OTHER ->
                    Driver_exec_fresh_snapshot("RootBehavior", depth + 1,
                                               snapshot, called) :
          action \in Behavior_execute_old(current)}

\* One tick of the driver from the active behaviour: the outcomes.
RECURSIVE Driver_exec(_, _, _, _)
Driver_exec(current, depth, snapshot, calls) ==
    IF depth > TailCallCap
    THEN {[current |-> current, calls |-> calls,
           commands |-> <<DefaultInput>>, capped |-> TRUE]}
    ELSE UNION {
        LET called == Append(calls, [behavior |-> current, snapshot |-> snapshot,
                                     result |-> action])
        IN  CASE action.kind = "Yield" ->
                    {[current |-> current, calls |-> called,
                      commands |-> <<action.input>>, capped |-> FALSE]}
              [] action.kind = "TailCall" ->
                    Driver_exec(action.callee, depth + 1, snapshot, called)
              [] OTHER ->
                    Driver_exec("RootBehavior", depth + 1, snapshot, called) :
          action \in Behavior_execute_old(current)}

InitDriver == InitInput

Tick ==
    /\ drv.tick < MaxTime
    /\ \E r \in Driver_exec(drv.current, 0, drv.snapshot + 1, <<>>) :
          drv' = [tick |-> drv.tick + 1, snapshot |-> drv.snapshot + 1,
                  current |-> r.current, calls |-> r.calls,
                  commands |-> r.commands, capped |-> r.capped]
    /\ UNCHANGED <<carVars, arcVars, cmd, query, jr, bhv>>

NextDriver == Tick

SpecDriver == InitDriver /\ [][NextDriver]_vars

(***************************************************************************)
(* The specification of YieldAndMaybePanicBoost: it is constructed and     *)
(* then executed on snapshots whose game time increases.  given holds the  *)
(* arguments of new, now the time of the next snapshot; of the latest call *)
(* at is the time, out the Action and panic_retreat_boost what             *)
(* Land::panic_retreat_boost said; first is the time of the first call.    *)
(***************************************************************************)
\* 0.1 s and 0.2 s as in jump_down_from_the_wall, and no time at all.
BoostDurations == {0, 2, 4}

BoostInputs ==
    {[DefaultInput EXCEPT !.Jump = TRUE],
     [DefaultInput EXCEPT !.Handbrake = TRUE],
     [DefaultInput EXCEPT !.Pitch = ONE, !.Jump = TRUE, !.Boost = TRUE]}

InitBoost == InitInput

YieldAndMaybePanicBoostNew ==
    /\ bhv.type = "none"
    /\ \E d \in BoostDurations, input \in BoostInputs, t0 \in {0, 3} :
          bhv' = [type |-> "YieldAndMaybePanicBoost",
                  self |-> YieldAndMaybePanicBoost_new(d, input),
                  given |-> [duration |-> d, input |-> input],
                  now |-> t0, at |-> 0, first |-> NoStart, calls |-> 0,
                  panic_retreat_boost |-> FALSE, out |-> Return]
    /\ UNCHANGED <<carVars, arcVars, cmd, query, jr, drv>>

YieldAndMaybePanicBoostExecuteOld ==
    /\ bhv.type = "YieldAndMaybePanicBoost"
    /\ bhv.calls < 2 * MaxTime
    /\ \E dt \in 1..MaxDt, panic_retreat_boost \in BOOLEAN :
          LET r == YieldAndMaybePanicBoost_execute_old(bhv.self, bhv.now,
                                                       panic_retreat_boost)
          IN  bhv' = [bhv EXCEPT
                        !.self = r.self, !.out = r.action,
                        !.at = bhv.now, !.now = bhv.now + dt,
                        !.first = IF bhv.calls = 0 THEN bhv.now ELSE bhv.first,
                        !.calls = bhv.calls + 1,
                        !.panic_retreat_boost = panic_retreat_boost]
    /\ UNCHANGED <<carVars, arcVars, cmd, query, jr, drv>>

NextBoost ==
    \/ YieldAndMaybePanicBoostNew
    \/ YieldAndMaybePanicBoostExecuteOld

SpecBoost == InitBoost /\ [][NextBoost]_vars

(***************************************************************************)
(* RootBehavior (brain/src/behavior/root.rs).  Game time is in quarters    *)
(* of a second; last_eval is NoStart while it is None.  eval reads only    *)
(* the packet, so the plan it evaluates is an input.                       *)
(***************************************************************************)
\* 1.0 second
ReplanPeriod == 4

Plans == {"Defense", "Offense"}

\* Action::Call
ActionCall(callee) == [kind |-> "Call", callee |-> callee, input |-> DefaultInput]

\* Option<Action>::None
NoCapture == [kind |-> "None", callee |-> "", input |-> DefaultInput]

RootBehavior_new == [last_eval |-> NoStart]

\* A mutant: capture re-plans on every call.
RootBehavior_capture_eager(self, time, plan) ==
    [self |-> [self EXCEPT !.last_eval = time], out |-> ActionCall(plan)]

RootBehavior_capture(self, time, plan) ==
    IF self.last_eval # NoStart /\ time < self.last_eval + ReplanPeriod
    THEN [self |-> self, out |-> NoCapture]
    ELSE [self |-> [self EXCEPT !.last_eval = time], out |-> ActionCall(plan)]

RootBehavior_execute(self, time, plan) ==
    [self |-> [self EXCEPT !.last_eval = time], out |-> ActionCall(plan)]

InitRoot == InitInput

\* The clock runs on: the packets' times never decrease.
PacketTimes == {t \in bhv.now..(bhv.now + ReplanPeriod + 1) : t <= 3 * MaxTime}

RootBehaviorNew ==
    /\ bhv' = [type |-> "RootBehavior", self |-> RootBehavior_new,
               now |-> IF bhv.type = "RootBehavior" THEN bhv.now ELSE 0,
               op |-> "new", before |-> NoStart, plan |-> "",
               out |-> NoCapture, replans |-> <<>>]
    /\ UNCHANGED <<carVars, arcVars, cmd, query, jr, drv>>

RootBehaviorCapture ==
    /\ bhv.type = "RootBehavior"
    /\ \E time \in PacketTimes, plan \in Plans :
          LET r == RootBehavior_capture(bhv.self, time, plan)
          IN  bhv' = [bhv EXCEPT
                        !.self = r.self, !.out = r.out, !.now = time,
                        !.op = "capture", !.before = bhv.self.last_eval,
                        !.plan = plan,
                        !.replans = IF r.out.kind = "Call"
                                    THEN Append(bhv.replans, time)
                                    ELSE bhv.replans]
    /\ UNCHANGED <<carVars, arcVars, cmd, query, jr, drv>>

RootBehaviorExecute ==
    /\ bhv.type = "RootBehavior"
    /\ \E time \in PacketTimes, plan \in Plans :
          LET r == RootBehavior_execute(bhv.self, time, plan)
          IN  bhv' = [bhv EXCEPT
                        !.self = r.self, !.out = r.out, !.now = time,
                        !.op = "execute", !.before = bhv.self.last_eval,
                        !.plan = plan]
    /\ UNCHANGED <<carVars, arcVars, cmd, query, jr, drv>>

NextRoot ==
    \/ RootBehaviorNew
    \/ RootBehaviorCapture
    \/ RootBehaviorExecute

SpecRoot == InitRoot /\ [][NextRoot]_vars

(***************************************************************************)
(* simulate_ball_blitz (brain/src/behavior/root.rs): the race of both cars *)
(* to the ball.  The field is a line: a location is one coordinate, in     *)
(* the units of Car1D's loc, and the distance between two locations is the *)
(* absolute difference.  The loop state is the record of the function's    *)
(* locals; an Option is NoStart (times) or the empty sequence (the ball)   *)
(* while it is None.                                                       *)
(***************************************************************************)
\* const DT: one tick, which is one sample of the speed tables.
DT == SampleSpacing

\* How far the simulated ball may move in one tick.
BallMoves == {-1000, 0, 5000}

Ball_new(loc) == [loc |-> loc]

\* The balls Ball::step may leave.
Ball_step(ball) == {[loc |-> ball.loc + d] : d \in BallMoves}

\* The locals before the loop.
simulate_ball_blitz_begin(me, enemy, ball_loc) ==
    [me_loc |-> me.loc, enemy_loc |-> enemy.loc,
     t |-> 0,
     sim_ball |-> Ball_new(ball_loc),
     sim_me |-> with_boost(new(me.vel), me.boost),
     sim_enemy |-> with_boost(new(enemy.vel), enemy.boost),
     me_time |-> NoStart, enemy_time |-> NoStart,
     ball_at_interception |-> <<>>]

\* The condition of the while loop.
simulate_ball_blitz_continues(s) ==
    s.me_time = NoStart \/ s.enemy_time = NoStart

\* A mutant: every arrival replaces the ball at interception.
simulate_ball_blitz_after_latest(s, sim_ball, sim_me, sim_enemy) ==
    LET t == s.t + DT
        me_arrives ==
            /\ s.me_time = NoStart
            /\ sim_me.loc >= Abs(s.me_loc - sim_ball.loc)
        enemy_arrives ==
            /\ s.enemy_time = NoStart
            /\ sim_enemy.loc >= Abs(s.enemy_loc - sim_ball.loc)
    IN  [s EXCEPT
           !.t = t, !.sim_ball = sim_ball,
           !.sim_me = sim_me, !.sim_enemy = sim_enemy,
           !.me_time = IF me_arrives THEN t ELSE s.me_time,
           !.enemy_time = IF enemy_arrives THEN t ELSE s.enemy_time,
           !.ball_at_interception =
               IF me_arrives \/ enemy_arrives THEN <<sim_ball>>
               ELSE s.ball_at_interception]

\* The locals after one iteration, given the stepped ball and cars.
simulate_ball_blitz_after(s, sim_ball, sim_me, sim_enemy) ==
    LET t == s.t + DT
        me_arrives ==
            /\ s.me_time = NoStart
            /\ sim_me.loc >= Abs(s.me_loc - sim_ball.loc)
        after_me ==
            IF me_arrives /\ s.ball_at_interception = <<>>
            THEN <<sim_ball>> ELSE s.ball_at_interception
        enemy_arrives ==
            /\ s.enemy_time = NoStart
            /\ sim_enemy.loc >= Abs(s.enemy_loc - sim_ball.loc)
        after_enemy ==
            IF enemy_arrives /\ after_me = <<>>
            THEN <<sim_ball>> ELSE after_me
    IN  [s EXCEPT
           !.t = t, !.sim_ball = sim_ball,
           !.sim_me = sim_me, !.sim_enemy = sim_enemy,
           !.me_time = IF me_arrives THEN t ELSE s.me_time,
           !.enemy_time = IF enemy_arrives THEN t ELSE s.enemy_time,
           !.ball_at_interception = after_enemy]

\* One iteration of the loop: the locals it may leave.
simulate_ball_blitz_iteration(s) ==
    {simulate_ball_blitz_after(s, sim_ball, sim_me, sim_enemy) :
        sim_ball \in Ball_step(s.sim_ball),
        sim_me \in IF s.me_time = NoStart
                   THEN step(s.sim_me, DT, 1, TRUE) ELSE {s.sim_me},
        sim_enemy \in IF s.enemy_time = NoStart
                      THEN step(s.sim_enemy, DT, 1, TRUE) ELSE {s.sim_enemy}}

\* The returned tuple.
simulate_ball_blitz_result(s) ==
    <<s.me_time, s.enemy_time, s.ball_at_interception[1].loc>>

\* The cars of the packet: location, speed and boost.
BlitzCars ==
    [loc : {0, 3000}, vel : {0, 1410}, boost : {0, 2}]

BlitzBallLocs == {0, 1000, 6000}

InitBlitz == InitInput

SimulateBallBlitzBegin ==
    /\ bhv.type = "none"
    /\ \E me \in BlitzCars, enemy \in BlitzCars, ball_loc \in BlitzBallLocs :
          /\ me.loc = 0
          /\ bhv' = [type |-> "simulate_ball_blitz", pc |-> "loop",
                     s |-> simulate_ball_blitz_begin(me, enemy, ball_loc),
                     balls |-> <<>>, me_path |-> <<>>, enemy_path |-> <<>>,
                     out |-> <<>>]
    /\ UNCHANGED <<carVars, arcVars, cmd, query, jr, drv>>

\* One pass through the body of the loop; the simulated time is capped.
SimulateBallBlitzIterate ==
    /\ bhv.type = "simulate_ball_blitz"
    /\ bhv.pc = "loop"
    /\ simulate_ball_blitz_continues(bhv.s)
    /\ bhv.s.t < MaxTime * DT
    /\ \E s \in simulate_ball_blitz_iteration(bhv.s) :
          bhv' = [bhv EXCEPT
                    !.s = s,
                    !.balls = Append(bhv.balls, s.sim_ball),
                    !.me_path = Append(bhv.me_path, s.sim_me.loc),
                    !.enemy_path = Append(bhv.enemy_path, s.sim_enemy.loc)]
    /\ UNCHANGED <<carVars, arcVars, cmd, query, jr, drv>>

\* The loop is left and the tuple returned.
SimulateBallBlitzReturn ==
    /\ bhv.type = "simulate_ball_blitz"
    /\ bhv.pc = "loop"
    /\ ~simulate_ball_blitz_continues(bhv.s)
    /\ bhv' = [bhv EXCEPT !.pc = "returned",
                          !.out = simulate_ball_blitz_result(bhv.s)]
    /\ UNCHANGED <<carVars, arcVars, cmd, query, jr, drv>>

NextBlitz ==
    \/ SimulateBallBlitzBegin
    \/ SimulateBallBlitzIterate
    \/ SimulateBallBlitzReturn

SpecBlitz == InitBlitz /\ [][NextBlitz]_vars

(***************************************************************************)
(* The specification of JumpAndDodgeRunner: a runner is constructed and    *)
(* then called once per tick with snapshots whose times increase.          *)
(***************************************************************************)
RunnerDirections == {5, QuarterTurn, 14}

\* The time between two snapshots, in microseconds.
TickSteps == {25000, 50000}

InnerActions ==
    {Yield(input) : input \in {DefaultInput, [DefaultInput EXCEPT !.Jump = TRUE]}}
        \cup {TailCall("NullBehavior", DefaultInput), RootCall, Return, Abort}

InitRunner == InitInput

JumpAndDodgeRunnerNew ==
    /\ ~jr.made
    /\ \E direction \in RunnerDirections, t0 \in {0, 10000} :
          jr' = [NoRunner EXCEPT !.made = TRUE, !.direction = direction,
                                 !.index = 1, !.now = t0]
    /\ UNCHANGED <<carVars, arcVars, cmd, query, drv, bhv>>

JumpAndDodgeRunnerExecuteOld ==
    /\ jr.made
    /\ jr.after < MaxVal
    /\ \E dt \in TickSteps :
          LET r == Chain_execute_old(JumpAndDodgeRunner_new(jr.direction),
                                     jr.index, jr.start, jr.now)
          IN  \E out \in JumpAndDodgeRunner_execute_old(r.action) :
                jr' = [jr EXCEPT
                         !.index = r.index, !.start = r.start,
                         !.now = jr.now + dt, !.at = jr.now, !.out = out,
                         !.issued = IF out.kind = "Yield" THEN r.index ELSE 0,
                         !.prev_issued = jr.issued,
                         !.began = [k \in 1..4 |->
                                      IF k = r.index /\ jr.began[k] = NoStart
                                      THEN jr.now ELSE jr.began[k]],
                         !.after = IF out.kind = "Success" THEN jr.after + 1
                                   ELSE jr.after]
    /\ UNCHANGED <<carVars, arcVars, cmd, query, drv, bhv>>

JumpAndDodgeRunnerMatch ==
    /\ \E inner \in InnerActions :
          query' = [fn |-> "JumpAndDodgeRunner::execute_old", args |-> inner,
                    out |-> JumpAndDodgeRunner_execute_old(inner)]
    /\ UNCHANGED <<carVars, arcVars, cmd, jr, drv, bhv>>

NextRunner ==
    \/ JumpAndDodgeRunnerNew
    \/ JumpAndDodgeRunnerExecuteOld
    \/ JumpAndDodgeRunnerMatch

SpecRunner == InitRunner /\ [][NextRunner]_vars

NextPlan ==
    \/ SimpleArcStart
    \/ SimpleArcEnd
    \/ SimpleArcNew
    \/ JumpAndDodgeDuration
    \/ JumpAndDodgeEnd

SpecPlan == InitArc /\ [][NextPlan]_vars

(***************************************************************************)
(* What the sampled curves say, stated on the samples themselves and       *)
(* independently of the search: the properties below compare the           *)
(* simulator with these.                                                   *)
(***************************************************************************)
\* The samples of a curve as <<key, value>> pairs.
Pairs(keys, vals) == {<<keys[i], vals[i]>> : i \in 1..Len(keys)}

\* The values paired with the largest key not exceeding x; with the smallest
\* key when every key exceeds x.
FloorValues(pairs, x) ==
    LET below == {p \in pairs : p[1] <= x}
    IN  IF below = {}
        THEN {p[2] : p \in {q \in pairs : \A r \in pairs : q[1] <= r[1]}}
        ELSE {p[2] : p \in {q \in below : \A r \in below : r[1] <= q[1]}}

\* The regime of a step with the given throttle and effective boost flag.
Regime(throttle, boost) ==
    IF throttle = 0 /\ ~boost THEN "coast"
    ELSE IF throttle = 1 /\ ~boost THEN "throttle"
    ELSE IF throttle = 1 /\ boost THEN "boost"
    ELSE "none"

\* The <<time, speed>> samples of a regime's curve.
Curve(regime) ==
    IF regime = "coast" THEN Pairs(COAST_TIME, COAST_CAR_VEL_Y)
    ELSE IF regime = "throttle" THEN Pairs(THROTTLE_TIME, THROTTLE_CAR_VEL_Y)
    ELSE IF regime = "boost" THEN Pairs(BOOST_TIME, BOOST_CAR_VEL_Y)
    ELSE {}

\* The same samples as <<speed, time>>.
Inverse(pairs) == {<<p[2], p[1]>> : p \in pairs}

\* The speeds reached by walking a regime's curve by d from speed v.
Walk(regime, v, d) ==
    UNION {FloorValues(Curve(regime), t + d) :
               t \in FloorValues(Inverse(Curve(regime)), v)}

\* The latest call was a boost request that found reserve left.
BoostActive == op.boost /\ prev.boost > 0

\* The latest call was `kind` and returned.
Returned(kind) == op.kind = kind /\ ~panicked

BoostTop == BOOST_CAR_VEL_Y[Len(BOOST_CAR_VEL_Y)]

CoastFinal == COAST_CAR_VEL_Y[Len(COAST_CAR_VEL_Y)]

(***************************************************************************)
(* C1.  step consumes boost only when boost is requested and the reserve   *)
(* is strictly above zero before the step; a request with reserve <= 0 is  *)
(* a no-boost step: no panic, no depletion, the speed of the no-boost      *)
(* regime of the same throttle.                                            *)
(***************************************************************************)
C1_BoostOnlyWhenAvailable ==
    op.kind = "step" =>
        /\ ~panicked => (car.boost # prev.boost <=> BoostActive)
        /\ (op.boost /\ prev.boost <= 0 /\ op.throttle \in {0, 1}) =>
              /\ ~panicked
              /\ car.boost = prev.boost
              /\ car.vel \in
                   (IF prev.vel >= CAR_NORMAL_SPEED /\ op.throttle = 1
                    THEN {prev.vel}
                    ELSE Walk(Regime(op.throttle, FALSE), prev.vel, op.dt))

\* A boost request at full throttle below the saturation speed met an empty
\* reserve and was stepped.
C1_Witness ==
    /\ Returned("step")
    /\ op.boost /\ prev.boost <= 0
    /\ op.throttle = 1 /\ prev.vel < CAR_NORMAL_SPEED
    /\ car.vel > prev.vel

(***************************************************************************)
(* C2.  At or above CAR_NORMAL_SPEED a step with throttle 1 leaves the     *)
(* speed exactly unchanged, with or without a boost request, while time    *)
(* and distance advance and an active boost still depletes.                *)
(***************************************************************************)
C2_SaturatedSpeedUnchanged ==
    (op.kind = "step" /\ op.throttle = 1 /\ prev.vel >= CAR_NORMAL_SPEED) =>
        /\ ~panicked
        /\ car.vel = prev.vel
        /\ car.time = prev.time + op.dt
        /\ car.loc = prev.loc + prev.vel * op.dt
        /\ BoostActive => car.boost = prev.boost - Depletion(op.dt)

C2_Witness ==
    /\ Returned("step")
    /\ op.throttle = 1 /\ prev.vel > CAR_NORMAL_SPEED
    /\ BoostActive
    /\ car.boost < prev.boost
    /\ car.loc > prev.loc

(***************************************************************************)
(* C3.  While boost is active at full throttle, a step of at least one     *)
(* sample spacing from any speed below the boost curve's top speed raises  *)
(* the speed: boosting climbs past CAR_NORMAL_SPEED to the top of the      *)
(* boost curve and is not held at the first speed at or above              *)
(* CAR_NORMAL_SPEED.                                                       *)
(***************************************************************************)
C3_BoostClimbsToTop ==
    (/\ Returned("step")
     /\ op.throttle = 1 /\ BoostActive
     /\ op.dt >= SampleSpacing
     /\ prev.vel < BoostTop) => car.vel > prev.vel

(***************************************************************************)
(* C4.  A fresh Car1D has time 0, distance 0, the given speed and boost    *)
(* 100 unless with_boost overrides it; each step advances time by dt,      *)
(* distance by the speed before the step times dt, and lowers the reserve  *)
(* by BOOST_DEPLETION x dt exactly when boost is effectively active.       *)
(***************************************************************************)
C4_StepBookkeeping ==
    /\ op.kind = "new" =>
          /\ car.time = 0 /\ car.loc = 0
          /\ car.vel = ctor.speed
          /\ car.boost = (IF ctor.with_boost THEN ctor.boost ELSE 100)
    /\ Returned("step") =>
          /\ car.time = prev.time + op.dt
          /\ car.loc = prev.loc + prev.vel * op.dt
          /\ car.boost = (IF BoostActive
                          THEN prev.boost - (100 * 3 * op.dt) \div (3 * 100)
                          ELSE prev.boost)

\* A boosted step that changed the speed of a moving car.
C4_Witness ==
    /\ Returned("step")
    /\ BoostActive
    /\ prev.vel > 0 /\ car.vel # prev.vel

(***************************************************************************)
(* C5 as stated.  step_rev gives the same increments as step: time by dt,  *)
(* distance by the speed before the call times dt, the same boost gating   *)
(* and depletion.                                                          *)
(***************************************************************************)
C5_StepRevIncrementsAsStep ==
    Returned("step_rev") =>
        /\ car.time = prev.time + op.dt
        /\ car.loc = prev.loc + prev.vel * op.dt
        /\ car.boost = (IF BoostActive THEN prev.boost - Depletion(op.dt)
                                       ELSE prev.boost)

(***************************************************************************)
(* C5 as amended.  step_rev gives the same time increment and the same     *)
(* boost gating and depletion as step, but its distance increment is the   *)
(* speed after the call (the looked-up earlier speed) times dt.            *)
(***************************************************************************)
C5_StepRevIncrements ==
    Returned("step_rev") =>
        /\ car.time = prev.time + op.dt
        /\ car.loc = prev.loc + car.vel * op.dt
        /\ car.boost = (IF BoostActive THEN prev.boost - Depletion(op.dt)
                                       ELSE prev.boost)
        /\ \A s \in step(prev, op.dt, op.throttle, op.boost) :
              s.time = car.time /\ s.boost = car.boost

\* A boosted step_rev that changed the speed.
C5_Witness ==
    /\ Returned("step_rev")
    /\ BoostActive
    /\ car.vel # prev.vel

(***************************************************************************)
(* C6.  Over any sequence of step and step_rev calls the reserve never     *)
(* goes up, time goes up, distance never goes down, and a call without     *)
(* effectively active boost leaves the reserve exactly unchanged.          *)
(***************************************************************************)
C6_Monotone ==
    (Returned("step") \/ Returned("step_rev")) =>
        /\ car.boost <= prev.boost
        /\ car.time > prev.time
        /\ car.loc >= prev.loc
        /\ ~BoostActive => car.boost = prev.boost

\* A boosted step_rev after an earlier call.
C6_Witness ==
    /\ Returned("step_rev")
    /\ BoostActive
    /\ prev.time > 0
    /\ car.boost < prev.boost

(***************************************************************************)
(* C7.  The reserve of a car constructed with a reserve in [0, 100] stays  *)
(* within [0, 100].                                                        *)
(***************************************************************************)
C7_ReserveInRange == car.boost >= 0 /\ car.boost <= 100

(***************************************************************************)
(* C8.  On a table sorted ascending in xs the lookup returns the ys entry  *)
(* paired with the largest xs entry not exceeding the query, the first ys  *)
(* entry for a query below every xs entry and the last for a query above   *)
(* every xs entry; the index is always inside the table.                   *)
(***************************************************************************)
C8_LookupIsFloor ==
    lk.done =>
        LET n == Len(lk.xs)
            i == lk.index + 1
        IN  /\ i \in 1..n
            /\ lk.out = lk.ys[i]
            /\ (\A j \in 1..n : lk.x < lk.xs[j]) => i = 1
            /\ (\A j \in 1..n : lk.xs[j] < lk.x) => i = n
            /\ (\E j \in 1..n : lk.xs[j] <= lk.x) =>
                  /\ lk.xs[i] <= lk.x
                  /\ \A j \in 1..n : lk.xs[j] <= lk.x => lk.xs[j] <= lk.xs[i]

\* A query strictly between two entries of the table.
C8_Witness ==
    /\ lk.done
    /\ Len(lk.xs) >= 2
    /\ lk.xs[1] < lk.x /\ lk.x < lk.xs[2]
    /\ lk.out = lk.ys[1]

(***************************************************************************)
(* C9.  When not saturated, the new speed is the regime's time->speed      *)
(* sample at (the regime's speed->time sample of the current speed) + dt   *)
(* for step and - dt for step_rev; the regime is coast for throttle 0      *)
(* without boost, throttle for throttle 1 without boost and boost for      *)
(* throttle 1 with boost active.                                           *)
(***************************************************************************)
C9_WalksTheCurve ==
    ((Returned("step") \/ Returned("step_rev"))
        /\ ~(prev.vel >= CAR_NORMAL_SPEED /\ op.throttle = 1)) =>
        /\ Regime(op.throttle, BoostActive) # "none"
        /\ car.vel \in Walk(Regime(op.throttle, BoostActive), prev.vel,
                            IF op.kind = "step" THEN op.dt ELSE 0 - op.dt)

\* A step_rev along the throttle curve from between two samples.
C9_Witness ==
    /\ Returned("step_rev")
    /\ op.throttle = 1 /\ ~BoostActive
    /\ prev.vel < CAR_NORMAL_SPEED
    /\ car.vel < prev.vel

(***************************************************************************)
(* C10.  A step with throttle 0 and no boost never raises the speed, never *)
(* makes it negative, never changes the reserve, and, repeated, reaches    *)
(* the coast curve's final speed: from any speed above the final speed it  *)
(* lowers the speed.                                                       *)
(***************************************************************************)
C10_CoastDecays ==
    (Returned("step") /\ op.throttle = 0 /\ ~op.boost) =>
        /\ car.vel <= prev.vel
        /\ car.vel >= 0
        /\ car.boost = prev.boost
        /\ prev.vel > CoastFinal => car.vel < prev.vel
        /\ prev.vel = CoastFinal => car.vel = CoastFinal

(***************************************************************************)
(* C11.  step followed by step_rev with the same dt and inputs.            *)
(***************************************************************************)
\* The latest two calls were a step and then a step_rev with the same
\* arguments, and both returned.
RoundTrip ==
    /\ Returned("step_rev")
    /\ before.op.kind = "step"
    /\ before.op.dt = op.dt
    /\ before.op.throttle = op.throttle
    /\ before.op.boost = op.boost

\* Boost was effectively active in both calls of the round trip.
RoundTripBoosted == op.boost /\ before.car.boost > 0 /\ prev.boost > 0

\* What the round trip does to time, distance and reserve.
RoundTripBookkeeping ==
    /\ car # before.car
    /\ car.time = before.car.time + 2 * op.dt
    /\ prev.loc >= before.car.loc /\ car.loc >= prev.loc
    /\ car.loc = before.car.loc + before.car.vel * op.dt + car.vel * op.dt
    /\ RoundTripBoosted => car.boost = before.car.boost - 2 * Depletion(op.dt)

(***************************************************************************)
(* C11 as stated.  The round trip does not restore the state (time ends at *)
(* +2 dt, distance advanced twice, boost depleted twice when boosting),    *)
(* and the speed moves back toward its original value: it ends no farther  *)
(* from it than the step left it.                                          *)
(***************************************************************************)
C11_RoundTripSpeedReturns ==
    RoundTrip =>
        /\ RoundTripBookkeeping
        /\ Abs(car.vel - before.car.vel) <= Abs(prev.vel - before.car.vel)

(***************************************************************************)
(* C11 as amended.  The round trip does not restore the state (time ends   *)
(* at +2 dt, distance advanced twice, boost depleted twice when boost was  *)
(* active in both calls); the speed is walked back along the regime's      *)
(* curve, not raised at throttle 1 and not lowered at throttle 0, which    *)
(* need not bring it back toward its original value.                       *)
(***************************************************************************)
C11_RoundTripAsymmetry ==
    RoundTrip =>
        /\ RoundTripBookkeeping
        /\ op.throttle = 1 => car.vel <= prev.vel
        /\ op.throttle = 0 => car.vel >= prev.vel

\* A boosted round trip that raised the speed and then lowered it again.
C11_Witness ==
    /\ RoundTrip
    /\ RoundTripBoosted
    /\ prev.vel > before.car.vel
    /\ car.vel < prev.vel

(***************************************************************************)
(* The arc, stated on the inputs of the construction and on the snapshot   *)
(* of the tick, independently of the operators above.                      *)
(***************************************************************************)
Constructed == arc.result # "None"

RadiiDifference == Abs(arc.start_loc.len - arc.end_loc.len)

Sign(x) == IF x < 0 THEN -1 ELSE IF x > 0 THEN 1 ELSE 0

\* The angle between the start velocity and the start-to-center vector.
VelocityToCenter ==
    Normalize(arc.start_loc.ang + HalfTurn - arc.start_vel.ang)

Ticked == arc.result = "Ok" /\ run.action.kind # "None"

\* The car of the latest tick is on flat ground.
OnFlatGround == run.me.OnGround /\ run.me.pitch = 0 /\ run.me.roll = 0

\* The angle from the start location to the car's, in the direction of
\* travel, in 0 .. FullTurn - 1.
SweptMagnitude ==
    (Heading * (run.me.loc.ang - arc.start_loc.ang)) % FullTurn

\* The bearing from the car to the point the runner aims at, if the two
\* differ: along the car's radius, outwards or inwards.
TargetBearing ==
    IF run.action.target_loc.ang = run.me.loc.ang
       /\ run.action.target_loc.len > run.me.loc.len
    THEN run.me.loc.ang
    ELSE (run.me.loc.ang + HalfTurn) % FullTurn

\* The angles from the car's forward axis to that point.
TargetAngles ==
    IF run.action.target_loc = run.me.loc
    THEN {0}
    ELSE LET d == Normalize(TargetBearing - run.me.forward_axis.ang)
         IN  IF d = HalfTurn THEN {d, 0 - d} ELSE {d}

Clamped(x) == IF x > ONE THEN ONE ELSE IF x < 0 - ONE THEN 0 - ONE ELSE x

(***************************************************************************)
(* C12.  SimpleArc::new fails with VelocityTooLow, and returns no plan,    *)
(* whenever the start speed is below 100, whatever the radius and the      *)
(* start and end locations: the velocity check precedes the geometry one.  *)
(***************************************************************************)
C12_VelocityTooLowFirst ==
    (Constructed /\ arc.start_vel.len < MIN_SPEED) =>
        /\ arc.result = "VelocityTooLow"
        /\ arc.plan = NoPlan

\* A construction with a low speed and radii 1.0 apart.
C12_Witness ==
    /\ Constructed
    /\ arc.start_vel.len < MIN_SPEED
    /\ RadiiDifference >= TOLERANCE
    /\ arc.result = "VelocityTooLow"

(***************************************************************************)
(* C13 as stated.  SimpleArc::new fails with WrongGeometry whenever the    *)
(* distances from the center to the start and to the end differ by 1.0 or  *)
(* more.                                                                   *)
(***************************************************************************)
C13_AlwaysWrongGeometry ==
    (Constructed /\ RadiiDifference >= TOLERANCE) => arc.result = "WrongGeometry"

(***************************************************************************)
(* C13 as amended.  When the two distances differ by 1.0 or more the       *)
(* construction always fails and returns no plan: with WrongGeometry if    *)
(* the start speed is at least 100, with VelocityTooLow if it is below.    *)
(***************************************************************************)
C13_WrongGeometryUnlessTooSlow ==
    (Constructed /\ RadiiDifference >= TOLERANCE) =>
        /\ arc.plan = NoPlan
        /\ arc.result = IF arc.start_vel.len < MIN_SPEED
                        THEN "VelocityTooLow"
                        ELSE "WrongGeometry"

\* A construction at the lowest accepted speed with radii exactly 1.0 apart.
C13_Witness ==
    /\ arc.result = "WrongGeometry"
    /\ RadiiDifference = TOLERANCE
    /\ arc.start_vel.len = MIN_SPEED

(***************************************************************************)
(* C14.  A constructed arc's sweep has the sign of the angle between the   *)
(* start velocity and the start-to-center vector, a magnitude strictly     *)
(* between 0 and a full turn, and leads from the start's angle to the      *)
(* end's, also when start and end coincide.                                *)
(***************************************************************************)
C14_SweepSignAndRange ==
    arc.result = "Ok" =>
        /\ Sign(arc.plan.sweep) = Sign(VelocityToCenter)
        /\ 0 < Abs(arc.plan.sweep) /\ Abs(arc.plan.sweep) < FullTurn
        /\ (arc.start_loc.ang + arc.plan.sweep) % FullTurn = arc.end_loc.ang

(***************************************************************************)
(* C15.  The point a yielding tick steers at lies on the plan's circle,    *)
(* 15 degrees ahead of the car's angular position in the direction of      *)
(* travel.                                                                 *)
(***************************************************************************)
C15_LookaheadAhead ==
    (Ticked /\ run.action.kind = "Yield") =>
        /\ run.action.target_loc.len = arc.radius
        /\ run.action.target_loc.ang =
              (run.me.loc.ang + Heading * LOOKAHEAD) % FullTurn

(***************************************************************************)
(* C16.  A tick reports Failure if the car is not on flat ground, even if  *)
(* the sweep is complete; otherwise Success if the angle swept from the    *)
(* start to the car in the direction of travel is at least |sweep|; and    *)
(* otherwise it yields a command.                                          *)
(***************************************************************************)
C16_TickOutcome ==
    Ticked =>
        run.action.kind =
            IF ~OnFlatGround THEN "Failure"
            ELSE IF SweptMagnitude >= Abs(arc.plan.sweep) THEN "Success"
            ELSE "Yield"

\* A car off the ground past the end of the sweep.
C16_Witness ==
    /\ Ticked
    /\ ~OnFlatGround
    /\ SweptMagnitude >= Abs(arc.plan.sweep)
    /\ Abs(arc.plan.sweep) > 0
    /\ run.action.kind = "Failure"

(***************************************************************************)
(* C17.  While the car stays on flat ground and keeps advancing along the  *)
(* arc from the start, the runner reports Success at the first tick at     *)
(* which the angle advanced has reached |sweep|: a tick yields only below  *)
(* it.                                                                     *)
(***************************************************************************)
C17_SuccessWhenSwept ==
    (Ticked /\ run.advancing) =>
        (run.action.kind = "Success" <=> run.accumulated >= Abs(arc.plan.sweep))

(***************************************************************************)
(* C18.  A yielded command has Throttle 1.0, Steer the angle from the      *)
(* car's forward axis to the point aimed at, clamped into [-1, 1], and     *)
(* every other field at its default.                                       *)
(***************************************************************************)
C18_YieldedCommand ==
    (Ticked /\ run.action.kind = "Yield") =>
        /\ run.action.input.Throttle = ONE
        /\ run.action.input.Steer \in {Clamped(a * MilliRadPerUnit) : a \in TargetAngles}
        /\ run.action.input.Steer >= 0 - ONE /\ run.action.input.Steer <= ONE
        /\ run.action.input =
              [DefaultInput EXCEPT !.Throttle = run.action.input.Throttle,
                                   !.Steer = run.action.input.Steer]

\* A yield whose angle to the point exceeds one radian, steering fully.
C18_Witness ==
    /\ Ticked
    /\ run.action.kind = "Yield"
    /\ \E a \in TargetAngles : a * MilliRadPerUnit > ONE
    /\ run.action.input.Steer = ONE

InUnitRange(x) == 0 - ONE <= x /\ x <= ONE

C19_CommandsInRange ==
    cmd.action.kind = "Yield" =>
        /\ InUnitRange(cmd.action.input.Throttle)
        /\ InUnitRange(cmd.action.input.Steer)
        /\ InUnitRange(cmd.action.input.Pitch)
        /\ InUnitRange(cmd.action.input.Yaw)
        /\ InUnitRange(cmd.action.input.Roll)

(***************************************************************************)
(* C29 as stated.  step_rev walks the curve backward: at throttle 1 below  *)
(* the saturation threshold the speed does not rise, at throttle 0 without *)
(* boost it does not fall; the reserve is depleted by BOOST_DEPLETION x dt *)
(* when boost is effectively active and unchanged otherwise.               *)
(***************************************************************************)
CoastTop == COAST_CAR_VEL_Y[1]

StepRevReserve ==
    car.boost = IF BoostActive THEN prev.boost - Depletion(op.dt) ELSE prev.boost

C29_StepRevWalksBackward ==
    Returned("step_rev") =>
        /\ (op.throttle = 1 /\ prev.vel < CAR_NORMAL_SPEED) => car.vel <= prev.vel
        /\ (op.throttle = 0 /\ ~BoostActive) => car.vel >= prev.vel
        /\ StepRevReserve

(***************************************************************************)
(* C29 as amended.  The same, except that at throttle 0 the speed does not *)
(* fall only from a speed within the coast curve; from a speed above the   *)
(* curve's highest sample step_rev returns that sample.                    *)
(***************************************************************************)
C29_StepRevWalksBackwardOnCurve ==
    Returned("step_rev") =>
        /\ (op.throttle = 1 /\ prev.vel < CAR_NORMAL_SPEED) => car.vel <= prev.vel
        /\ (op.throttle = 0 /\ ~BoostActive /\ prev.vel <= CoastTop) =>
              car.vel >= prev.vel
        /\ (op.throttle = 0 /\ ~BoostActive /\ prev.vel > CoastTop) =>
              car.vel = CoastTop
        /\ StepRevReserve

\* A coasting step_rev that raised the speed after a boosted one lowered it.
C29_Witness ==
    /\ Returned("step_rev")
    /\ op.throttle = 0
    /\ car.vel > prev.vel
    /\ before.op.kind = "step_rev"
    /\ before.op.throttle = 1
    /\ prev.vel < before.car.vel
    /\ prev.boost < before.car.boost

(***************************************************************************)
(* C26.  SkidRecover returns Abort if the car is not on flat ground, also  *)
(* when it is not skidding; Return if it is on flat ground and not         *)
(* skidding; otherwise it yields Throttle 1.0 and a Steer clamped into     *)
(* [-1, 1]; it never tail-calls.                                           *)
(***************************************************************************)
\* The car the latest behaviour read is on flat ground.
ContextFlat == cmd.ctx.OnGround /\ cmd.ctx.pitch = 0 /\ cmd.ctx.roll = 0

C26_SkidRecoverOutcome ==
    cmd.emitter = "SkidRecover" =>
        /\ cmd.action.kind =
              IF ~ContextFlat THEN "Abort"
              ELSE IF ~cmd.ctx.skidding THEN "Return"
              ELSE "Yield"
        /\ cmd.action.kind # "TailCall"
        /\ cmd.action.kind = "Yield" =>
              cmd.action.input =
                  [DefaultInput EXCEPT
                      !.Throttle = ONE,
                      !.Steer = Clamped(cmd.ctx.yaw_diff * MilliRadPerUnit)]

\* A car off the ground that is not skidding: Abort.
C26_Witness ==
    /\ cmd.emitter = "SkidRecover"
    /\ ~cmd.ctx.OnGround
    /\ ~cmd.ctx.skidding
    /\ cmd.action.kind = "Abort"

(***************************************************************************)
(* C27.  For a constructed arc start() reports the given start location,   *)
(* velocity and boost; end() has the start location turned about the       *)
(* center by sweep, which is within the 1.0 tolerance of the requested end *)
(* location, the start velocity turned by sweep, with the same speed, and  *)
(* the start's boost.                                                      *)
(***************************************************************************)
C27_StartAndEnd ==
    /\ query.fn = "SimpleArc::start" =>
          /\ query.out.loc = query.args.start_loc
          /\ query.out.vel = query.args.start_vel
          /\ query.out.boost = query.args.start_boost
    /\ query.fn = "SimpleArc::end" =>
          /\ query.out.loc.ang = query.args.end_loc.ang
          /\ Abs(query.out.loc.len - query.args.end_loc.len) < TOLERANCE
          /\ query.out.loc.len = query.args.start_loc.len
          /\ query.out.loc.ang =
                (query.args.start_loc.ang + query.args.plan.sweep) % FullTurn
          /\ query.out.vel.len = query.args.start_vel.len
          /\ query.out.vel.ang =
                (query.args.start_vel.ang + query.args.plan.sweep) % FullTurn
          /\ query.out.rot = query.out.vel.ang
          /\ query.out.boost = query.args.start_boost

\* The end of an arc of three quarter turns against the positive sense,
\* whose requested end is less than 1.0 farther from the center.
C27_Witness ==
    /\ query.fn = "SimpleArc::end"
    /\ query.args.plan.sweep = 0 - 3 * QuarterTurn
    /\ query.args.end_loc.len = query.args.start_loc.len + 1
    /\ query.out.loc.ang = query.args.end_loc.ang
    /\ query.out.loc.ang # query.args.start_loc.ang

(***************************************************************************)
(* C21.  JumpAndDodge::duration() is 6/120 + 6/120 + 1.333333 s for every  *)
(* direction and start state, and it is the sum of the durations of the    *)
(* four phases the runner chains: 6/120, 6/120, 6/120 and 1.333333 - 6/120.*)
(***************************************************************************)
RECURSIVE SumOfDurations(_)
SumOfDurations(phases) ==
    IF phases = <<>> THEN 0
    ELSE phases[1].duration + SumOfDurations(Tail(phases))

C21_DurationConstant ==
    query.fn = "JumpAndDodge::duration" =>
        /\ query.out = 50000 + 50000 + 1333333
        /\ Len(JumpAndDodgeRunner_new(query.args.direction)) = 4
        /\ query.out = SumOfDurations(JumpAndDodgeRunner_new(query.args.direction))
        /\ [i \in 1..4 |-> JumpAndDodgeRunner_new(query.args.direction)[i].duration]
              = <<50000, 50000, 50000, 1333333 - 50000>>

\* The duration of a dodge to the rear left of a moving car facing backwards.
C21_Witness ==
    /\ query.fn = "JumpAndDodge::duration"
    /\ query.args.direction = 9
    /\ query.args.start.vel # <<0, 0>>
    /\ query.args.start.rot = HalfTurn
    /\ query.out = 1433333

(***************************************************************************)
(* C23.  JumpAndDodge::end() has the start velocity plus an impulse of 500 *)
(* in the chosen direction turned into the car's facing frame; the start   *)
(* location plus (JUMP_TIME + WAIT_TIME) x start velocity plus FLOAT_TIME  *)
(* x that velocity; and the start's heading and boost.                     *)
(***************************************************************************)
\* The unit vector along an axis, for an angle of whole quarter turns.
AxisVector(a) ==
    LET q == (a % FullTurn) \div QuarterTurn
    IN  <<(IF q = 0 THEN 1 ELSE IF q = 2 THEN -1 ELSE 0),
          (IF q = 1 THEN 1 ELSE IF q = 3 THEN -1 ELSE 0)>>

C23_EndState ==
    query.fn = "JumpAndDodge::end" =>
        LET s == query.args.start
            i == AxisVector(s.rot + query.args.direction)
            v == <<s.vel[1] + 5 * i[1], s.vel[2] + 5 * i[2]>>
        IN  /\ query.out.vel = v
            /\ query.out.loc[1] = s.loc[1] + 100000 * s.vel[1] + 1333333 * v[1]
            /\ query.out.loc[2] = s.loc[2] + 100000 * s.vel[2] + 1333333 * v[2]
            /\ query.out.rot = s.rot
            /\ query.out.boost = s.boost

\* A dodge to the left by a car heading along -y: the impulse is along +x.
C23_Witness ==
    /\ query.fn = "JumpAndDodge::end"
    /\ query.args.start.rot = 3 * QuarterTurn
    /\ query.args.direction = QuarterTurn
    /\ query.args.start.vel = <<0, -23>>
    /\ query.out.vel = <<5, -23>>

(***************************************************************************)
(* C22.  The JumpAndDodgeRunner issues its four phases strictly in order   *)
(* and never returns to an earlier one: jump pressed, neutral, jump        *)
(* pressed with pitch = -cos(direction) and yaw = sin(direction), neutral; *)
(* each phase runs to completion before the next starts, and Success is    *)
(* reported only after the last phase has completed.                       *)
(***************************************************************************)
\* The input and the duration of each phase, as the claim states them.
PhaseInput(direction, phase) ==
    CASE phase = 1 -> [DefaultInput EXCEPT !.Jump = TRUE]
      [] phase = 2 -> DefaultInput
      [] phase = 3 -> [DefaultInput EXCEPT !.Jump = TRUE,
                                           !.Pitch = 0 - cos_angle(direction),
                                           !.Yaw = sin_angle(direction)]
      [] phase = 4 -> DefaultInput

PhaseDuration == <<50000, 50000, 50000, 1283333>>

C22_PhasesInOrder ==
    jr.made /\ jr.out.kind # "None" =>
        /\ jr.out.kind = "Yield" =>
              /\ jr.issued \in 1..4
              /\ jr.out.input = PhaseInput(jr.direction, jr.issued)
              /\ jr.issued \in {jr.prev_issued, jr.prev_issued + 1}
              /\ jr.at - jr.began[jr.issued] < PhaseDuration[jr.issued]
        /\ jr.began[1] # NoStart
        /\ \A k \in 2..4 :
              jr.began[k] # NoStart =>
                  /\ jr.began[k - 1] # NoStart
                  /\ jr.began[k] - jr.began[k - 1] >= PhaseDuration[k - 1]
        /\ jr.out.kind = "Success" =>
              /\ jr.began[4] # NoStart
              /\ jr.at - jr.began[4] >= PhaseDuration[4]
              /\ jr.prev_issued \in {0, 4}

\* The runner reports Success right after yielding the float phase.
C22_Witness ==
    /\ jr.made
    /\ jr.out.kind = "Success"
    /\ jr.prev_issued = 4
    /\ jr.direction = 5
    /\ jr.began[3] - jr.began[2] > 50000

(***************************************************************************)
(* C28.  The JumpAndDodgeRunner maps its inner behaviour's result as       *)
(* Yield(input) -> Yield(input), Return -> Success, Abort -> Failure,      *)
(* RootCall -> Failure, and panics on a TailCall; its only outcomes are an *)
(* ongoing control output, Success or Failure.                             *)
(***************************************************************************)
C28_ResultMapping ==
    /\ query.fn = "JumpAndDodgeRunner::execute_old" =>
          LET panics == query.out = {}
              kinds == {o.kind : o \in query.out}
          IN  /\ query.args.kind = "Yield" =>
                    query.out = {[kind |-> "Yield", input |-> query.args.input]}
              /\ query.args.kind = "Return" => kinds = {"Success"}
              /\ query.args.kind = "Abort" => kinds = {"Failure"}
              /\ query.args.kind = "RootCall" => kinds = {"Failure"}
              /\ panics <=> query.args.kind = "TailCall"
    /\ jr.made => jr.out.kind \in {"None", "Yield", "Success", "Failure"}

\* The inner behaviour aborted and the runner reported Failure.
C28_Witness ==
    /\ query.fn = "JumpAndDodgeRunner::execute_old"
    /\ query.args.kind = "Abort"
    /\ query.out = {[kind |-> "Failure", input |-> DefaultInput]}
    /\ jr.made
    /\ jr.out.kind = "Yield"

(***************************************************************************)
(* C25.  Priority is a strict total order with Idle < Defense < Strike <   *)
(* Taunt < Force; a behaviour that does not override priority() has        *)
(* priority Idle, the minimum.                                             *)
(***************************************************************************)
Priorities == {"Idle", "Defense", "Strike", "Taunt", "Force"}

\* The rank the claim gives each level.
Rank(p) ==
    CASE p = "Idle" -> 0
      [] p = "Defense" -> 1
      [] p = "Strike" -> 2
      [] p = "Taunt" -> 3
      [] p = "Force" -> 4

C25_PriorityOrder ==
    /\ query.fn = "Priority::cmp" =>
          LET a == query.args[1]
              b == query.args[2]
          IN  /\ query.out = "Less" <=> Rank(a) < Rank(b)
              /\ query.out = "Equal" <=> a = b
              /\ query.out = "Greater" <=> Rank(a) > Rank(b)
              /\ query.out = "Less" <=> Priority_cmp(b, a) = "Greater"
              /\ \A c \in Priorities :
                    query.out = "Less" /\ Priority_cmp(b, c) = "Less"
                        => Priority_cmp(a, c) = "Less"
    /\ query.fn = "Behavior::priority" =>
          /\ query.out = "Idle"
          /\ \A p \in Priorities : Priority_cmp(query.out, p) # "Greater"

\* Strike compared with Taunt, one of the two levels above it.
C25_Witness ==
    /\ query.fn = "Priority::cmp"
    /\ query.args = <<"Strike", "Taunt">>
    /\ query.out = "Less"

(***************************************************************************)
(* C30.  get_route_dodge proposes a dodge only when boost <= 1, the car is *)
(* on the ground, pitch < pi/12, |yaw difference| < pi/60, 1300 <= speed < *)
(* CAR_ALMOST_MAX_SPEED and distance / (speed + 500) >= 1.3333 s; if any   *)
(* of these fails it returns None.                                         *)
(***************************************************************************)
\* distance / velocity in whole microseconds, two digits at a time.
TravelMicros(distance, velocity) ==
    LET q1 == (distance * 100) \div velocity
        r1 == (distance * 100) % velocity
        q2 == (r1 * 100) \div velocity
        r2 == (r1 * 100) % velocity
    IN  q1 * 10000 + q2 * 100 + (r2 * 100) \div velocity

\* The conditions in the claim's units: thousandths of a radian against
\* pi/12 = 261.8 and pi/60 = 52.4, 1/100 uu/s against 1300 and 2289.98,
\* and microseconds against 1.3333 s.
DodgeConditions(c) ==
    /\ c.Boost <= 1
    /\ c.OnGround
    /\ c.pitch <= 261
    /\ Abs(c.yaw_diff) <= 52
    /\ 130000 <= c.speed
    /\ c.speed < 228998
    /\ TravelMicros(c.target_dist, c.speed + 50000) >= 1333300

C30_DodgeOnlyWhen ==
    query.fn = "get_route_dodge" =>
        /\ query.out = "QuickJumpAndDodge" => DodgeConditions(query.args)
        /\ ~DodgeConditions(query.args) => query.out = "None"
        /\ query.out \in {"None", "QuickJumpAndDodge"}

\* A dodge is proposed to a car with one unit of boost at the lowest speed
\* and the largest pitch and yaw difference that allow it.
C30_Witness ==
    /\ query.fn = "get_route_dodge"
    /\ query.out = "QuickJumpAndDodge"
    /\ query.args.Boost = 1
    /\ query.args.pitch = 261
    /\ query.args.yaw_diff = -52
    /\ query.args.speed = 130000

(***************************************************************************)
(* C24.  Within one tick the driver follows a TailCall result at once,     *)
(* without a fresh snapshot; the number of tail calls followed in one tick *)
(* is bounded by a cap, so that behaviours tail-calling each other in a    *)
(* cycle cannot loop forever; and exactly one control command is emitted   *)
(* per tick.                                                               *)
(***************************************************************************)
TailCallsFollowed ==
    Cardinality({i \in 1..(Len(drv.calls) - 1) :
                    drv.calls[i].result.kind = "TailCall"})

C24_TailCallsWithinTick ==
    drv.tick > 0 =>
        /\ \A i \in 1..Len(drv.calls) :
              /\ drv.calls[i].snapshot = drv.snapshot
              /\ drv.calls[i].result.kind = "TailCall" =>
                    IF i < Len(drv.calls)
                    THEN drv.calls[i + 1].behavior = drv.calls[i].result.callee
                    ELSE drv.capped /\ drv.current = drv.calls[i].result.callee
        /\ TailCallsFollowed <= 5
        /\ Len(drv.calls) <= 6
        /\ Len(drv.commands) = 1
        /\ drv.snapshot = drv.tick

\* A tick in which Defense and Retreat tail-called each other until the
\* cap ended the tick with a command.
C24_Witness ==
    /\ drv.tick = 2
    /\ drv.capped
    /\ Len(drv.calls) = 6
    /\ \A i \in 1..Len(drv.calls) :
          /\ drv.calls[i].result.kind = "TailCall"
          /\ drv.calls[i].behavior \in {"Defense", "Retreat"}
    /\ Len(drv.commands) = 1

(***************************************************************************)
(* C37.  Car1D::step and step_rev panic with "Unsupported inputs" exactly  *)
(* when the saturation shortcut does not apply and either throttle is      *)
(* neither 0.0 nor 1.0, or boost is effectively active (requested with     *)
(* reserve above zero) while throttle is 0.0; the panic happens before any *)
(* field is changed; a boost request with throttle 0.0 and an exhausted    *)
(* reserve does not panic and coasts.                                      *)
(***************************************************************************)
Shortcut == prev.vel >= 1410 /\ op.throttle = 1

EffectiveBoost == op.boost /\ prev.boost > 0

CoastSamples == {COAST_CAR_VEL_Y[i] : i \in 1..Len(COAST_CAR_VEL_Y)}

C37_UnsupportedInputs ==
    op.kind \in {"step", "step_rev"} =>
        /\ panicked <=>
              /\ ~Shortcut
              /\ \/ op.throttle \notin {0, 1}
                 \/ EffectiveBoost /\ op.throttle = 0
        /\ panicked => car = prev
        /\ op.throttle = 0 /\ op.boost /\ prev.boost <= 0 =>
              /\ ~panicked
              /\ car.vel \in CoastSamples
              /\ car.boost = prev.boost
              /\ car.time = prev.time + op.dt

\* A car with boost left is stepped with throttle 0 and boost requested.
C37_Witness ==
    /\ op.kind = "step"
    /\ op.throttle = 0
    /\ op.boost
    /\ prev.boost > 0
    /\ prev.vel < 1410
    /\ panicked
    /\ car = prev

(***************************************************************************)
(* C38.  For speed tables ascending in time and speed, a forward step at   *)
(* full throttle, with or without effective boost, never yields a speed    *)
(* lower than the speed before the step, for every starting speed and      *)
(* every dt > 0, also for speeds between two samples and dt below the      *)
(* sample spacing.                                                         *)
(***************************************************************************)
C38_FullThrottleNeverSlows ==
    op.kind = "step" /\ op.throttle = 1 /\ ~panicked => car.vel >= prev.vel

(***************************************************************************)
(* C39.  The SimpleArcRunner reports Success only when the car has         *)
(* advanced from the start location, in the committed direction, by at     *)
(* least |sweep|; a car on flat ground slightly behind the start location  *)
(* on the first tick is not reported as finished.                          *)
(***************************************************************************)
\* The car's advance from the start is known: it has advanced tick by tick,
\* or the first tick found it behind the start.
AdvanceKnown == run.advancing \/ run.accumulated < 0

C39_SuccessOnlyWhenAdvanced ==
    (Ticked /\ AdvanceKnown /\ run.action.kind = "Success") =>
        run.accumulated >= Abs(arc.plan.sweep)

(***************************************************************************)
(* C40.  Every successfully constructed SimpleArc has a radius equal,      *)
(* within the tolerance of 1.0, to the distance from the center to         *)
(* start_loc, so that duration() and the runner's lookahead circle         *)
(* describe the circle the start and end points lie on.                    *)
(***************************************************************************)
C40_RadiusIsStartDistance ==
    (query.fn = "SimpleArc::new" /\ query.out.result = "Ok") =>
        /\ Abs(query.out.plan.radius - query.args.start_loc.len) < UnitsPerUU
        /\ \A loc \in {query.args.start_loc, query.args.end_loc} :
              Abs(calculate_ahead_loc(query.out.plan, loc, 1).len
                    - query.args.start_loc.len) < UnitsPerUU

(***************************************************************************)
(* C35.  GetToFlatGround::execute_old returns Return exactly when the car  *)
(* is on flat ground (on ground, |pitch| < 15 degrees and |roll| < 15      *)
(* degrees), checked before anything else; when the car is airborne it     *)
(* tail-calls Land; in every other case it yields a command or tail-calls  *)
(* a jump sequence, and it never returns Abort.                            *)
(***************************************************************************)
JumpSequences == {"YieldAndMaybePanicBoost", "Chain"}

C34_LatchedStart ==
    (bhv.type = "YieldAndMaybePanicBoost" /\ bhv.calls > 0) =>
        /\ bhv.self.start = bhv.first
        /\ bhv.self.duration = bhv.given.duration
        /\ bhv.self.input = bhv.given.input
        /\ bhv.out.kind = IF bhv.at - bhv.first < bhv.given.duration
                          THEN "Yield" ELSE "Return"
        /\ bhv.out.kind = "Yield" =>
              /\ bhv.out.input.Boost = bhv.panic_retreat_boost
              /\ [bhv.out.input EXCEPT !.Boost = bhv.given.input.Boost]
                    = bhv.given.input
        /\ (bhv.given.duration > 0 /\ bhv.calls = 1) => bhv.out.kind = "Yield"

\* The third call of a behaviour of 0.2 s still yields, 0.15 s after the
\* first, its input with the Boost field cleared.
C34_Witness ==
    /\ bhv.type = "YieldAndMaybePanicBoost"
    /\ bhv.calls = 3
    /\ bhv.given.duration = 4
    /\ bhv.at - bhv.first = 3
    /\ bhv.given.input.Boost
    /\ ~bhv.out.input.Boost
    /\ bhv.out.kind = "Yield"

(***************************************************************************)
(* C31.  Defense::execute_old never yields a command, returns or aborts:   *)
(* on every tick it returns a TailCall, to Retreat if the car is not       *)
(* between ball and own goal, else if a retreating save is applicable,     *)
(* else if the enemy can shoot, else if the enemy can attack (checked in   *)
(* that order), and to TepidHit only when none of these hold.              *)
(***************************************************************************)
\* The car is between the ball and its goal, as the claim's premise: the
\* panic is over, or the ball is farther out than the car (by more than the
\* panic factor) and the car is within 30 degrees of it or in its net.
Between(c) ==
    \/ c.finished_panicking
    \/ /\ c.ball_dist > c.me_dist + (IF c.slightly_panicky_retreat THEN 2000 ELSE 0)
       /\ (c.defending_angle <= 523 \/ c.me_goal_dist < 1200)

\* The first reason to retreat, in the order of the checks.
RetreatReason(c) ==
    IF ~Between(c) THEN "not between ball and goal"
    ELSE IF c.retreating_save THEN "retreating save"
    ELSE IF c.enemy_can_shoot THEN "enemy_can_shoot"
    ELSE IF c.enemy_can_attack THEN "enemy_can_attack"
    ELSE ""

C31_DefenseAlwaysTailCalls ==
    query.fn = "Defense::execute_old" =>
        /\ query.out.action.kind = "TailCall"
        /\ query.out.action.callee =
              IF RetreatReason(query.args) = "" THEN "TepidHit" ELSE "Retreat"
        /\ query.out.log = RetreatReason(query.args)

\* Between ball and goal, no save, no shot, but the enemy can attack.
C31_Witness ==
    /\ query.fn = "Defense::execute_old"
    /\ ~query.args.finished_panicking
    /\ Between(query.args)
    /\ ~query.args.retreating_save
    /\ ~query.args.enemy_can_shoot
    /\ query.args.enemy_can_attack
    /\ query.out.action.callee = "Retreat"
    /\ query.out.log = "enemy_can_attack"

(***************************************************************************)
(* C32 as stated.  Once PanicDefense::finished_panicking holds, Defense    *)
(* does not tail-call Retreat again.                                       *)
(***************************************************************************)
C32_NoRetreatAfterPanic ==
    (query.fn = "Defense::execute_old" /\ query.args.finished_panicking) =>
        query.out.action.callee # "Retreat"

(***************************************************************************)
(* C32, amended.  Defense::is_between_ball_and_own_goal returns true       *)
(* whenever PanicDefense::finished_panicking holds, for every ball and car *)
(* position and before any other check, so that Defense does not tail-call *)
(* Retreat for not being between ball and goal once the panic retreat has  *)
(* finished; it still tail-calls Retreat when a retreating save is         *)
(* applicable or the enemy can shoot or attack.                            *)
(***************************************************************************)
C32_PanicOverCountsAsBetween ==
    /\ (query.fn = "Defense::is_between_ball_and_own_goal"
          /\ query.args.finished_panicking) => query.out = TRUE
    /\ (query.fn = "Defense::execute_old" /\ query.args.finished_panicking) =>
          /\ query.out.log # "not between ball and goal"
          /\ query.out.action.callee = "Retreat" <=>
                \/ query.args.retreating_save
                \/ query.args.enemy_can_shoot
                \/ query.args.enemy_can_attack

\* The panic is over with the car farther out than the ball and far from
\* the net: it counts as between.
C32_Witness ==
    /\ query.fn = "Defense::is_between_ball_and_own_goal"
    /\ query.args.finished_panicking
    /\ query.args.ball_dist <= query.args.me_dist
    /\ query.args.defending_angle = 524
    /\ query.args.me_goal_dist = 1200
    /\ query.out = TRUE

(***************************************************************************)
(* C33.  RootBehavior::capture re-plans at most once per second of game    *)
(* time: it returns None whenever the packet time is less than 1.0 s after *)
(* the last evaluation (made by capture or by execute), and otherwise      *)
(* records the packet time as the last evaluation and returns a Call of    *)
(* the evaluated plan; with a non-decreasing clock any two re-plans        *)
(* produced by capture are at least 1.0 s (4 quarters) apart, and the      *)
(* first capture on a fresh RootBehavior always re-plans.                  *)
(***************************************************************************)
C33_ReplanOncePerSecond ==
    bhv.type = "RootBehavior" =>
        /\ bhv.op = "capture" =>
              IF bhv.before # NoStart /\ bhv.now < bhv.before + 4
              THEN bhv.out.kind = "None" /\ bhv.self.last_eval = bhv.before
              ELSE /\ bhv.out.kind = "Call"
                   /\ bhv.out.callee = bhv.plan
                   /\ bhv.self.last_eval = bhv.now
        /\ bhv.op = "execute" => bhv.self.last_eval = bhv.now
        /\ \A i \in 1..(Len(bhv.replans) - 1) :
              bhv.replans[i + 1] - bhv.replans[i] >= 4
        /\ (bhv.op = "capture" /\ bhv.before = NoStart) =>
              bhv.out.kind = "Call"

\* A capture less than a second after an execute bails, after two re-plans
\* by capture.
C33_Witness ==
    /\ bhv.type = "RootBehavior"
    /\ bhv.op = "capture"
    /\ Len(bhv.replans) = 2
    /\ bhv.before > bhv.replans[2]
    /\ bhv.now = bhv.before + 3
    /\ bhv.out.kind = "None"

(***************************************************************************)
(* C36.  simulate_ball_blitz steps the ball and both simulated cars (full  *)
(* throttle, boost requested) tick by tick; each car's arrival time is     *)
(* recorded once, at the first tick its travelled distance reaches its     *)
(* distance to the simulated ball, and is never overwritten; a car stops   *)
(* being stepped once it has arrived; the returned ball location is the    *)
(* ball state at the earlier of the two arrivals; and the loop exits       *)
(* exactly when both arrival times are set (so it does not terminate if    *)
(* one car never covers its distance).                                     *)
(***************************************************************************)
\* The ticks so far at which a car on the given path was within reach of
\* the ball.
ReachedAt(path, loc) ==
    {k \in 1..Len(path) : path[k] >= Abs(loc - bhv.balls[k].loc)}

\* The first of them as a time, or NoStart.
FirstReached(path, loc) ==
    IF ReachedAt(path, loc) = {} THEN NoStart
    ELSE DT * (CHOOSE k \in ReachedAt(path, loc) :
                  \A j \in ReachedAt(path, loc) : k <= j)

Earlier(a, b) == IF a = NoStart THEN b ELSE IF b = NoStart THEN a
                 ELSE IF a <= b THEN a ELSE b

Later(a, b) == IF a >= b THEN a ELSE b

C36_BlitzBookkeeping ==
    bhv.type = "simulate_ball_blitz" =>
        LET s == bhv.s
            first == Earlier(s.me_time, s.enemy_time)
            both == s.me_time # NoStart /\ s.enemy_time # NoStart
        IN  /\ Len(bhv.balls) * DT = s.t
            /\ s.me_time = FirstReached(bhv.me_path, s.me_loc)
            /\ s.enemy_time = FirstReached(bhv.enemy_path, s.enemy_loc)
            /\ s.sim_me.time = IF s.me_time = NoStart THEN s.t ELSE s.me_time
            /\ s.sim_enemy.time =
                  IF s.enemy_time = NoStart THEN s.t ELSE s.enemy_time
            /\ s.ball_at_interception =
                  IF first = NoStart THEN <<>> ELSE <<bhv.balls[first \div DT]>>
            /\ both => s.t = Later(s.me_time, s.enemy_time)
            /\ bhv.pc = "returned" =>
                  /\ both
                  /\ bhv.out = <<s.me_time, s.enemy_time,
                                 bhv.balls[first \div DT].loc>>

\* Returned with the enemy arriving two ticks after the car, while the ball
\* moved in between.
C36_Witness ==
    /\ bhv.type = "simulate_ball_blitz"
    /\ bhv.pc = "returned"
    /\ bhv.s.enemy_time = bhv.s.me_time + 2 * DT
    /\ bhv.s.sim_ball.loc # bhv.out[3]

\* The simulated time runs out with a car that has not arrived.
C36_StillRacing ==
    /\ bhv.type = "simulate_ball_blitz"
    /\ bhv.pc = "loop"
    /\ bhv.s.t = MaxTime * DT
    /\ bhv.s.me_time # NoStart
    /\ bhv.s.enemy_time = NoStart

====
